---- MODULE Spec2Model ----
(***************************************************************************)
(* Badam Sat: the rule engine (badam-sat/src/games.rs, players.rs) and the *)
(* room that hosts one game (badam-sat-server/src/rooms.rs), and the server *)
(* task that routes the router's messages to the room tasks                *)
(* (badam-sat-server/src/server.rs, lib.rs).                               *)
(*                                                                         *)
(* Values mirror the Rust types:                                           *)
(*   Card        [suit, rank]            rank is Rank::value(), 1..13      *)
(*   StackState  [tag |-> "Empty"] | [tag |-> "SevenOnly"]                 *)
(*               | [tag |-> "LowOnly", card] | [tag |-> "HighOnly", card]  *)
(*               | [tag |-> "LowAndHigh", low, high]                       *)
(*   CardStack   [suit, stack_state]                                       *)
(*   Transition  [type |-> "DealCards"] | [type |-> "Play", player, card]  *)
(*               | [type |-> "Pass", player]                               *)
(*   GameState   [tag |-> "PrePlay"]                                       *)
(*               | [tag |-> "InPlay", player, valid_actions]               *)
(*               | [tag |-> "Over", winner]                                *)
(*   Player      [hand, max_card_count]                                    *)
(*   BadamSat    [state, players, playing_area, decks, player_count]       *)
(* Vec indices are 0-based as in the source; a Vec<Player> is a function   *)
(* on 0..n-1, a Vec<Card> and Vec<CardStack> are sequences.                *)
(***************************************************************************)
EXTENDS Integers, Sequences, FiniteSets, TLC

\* ------------------------------------------------------------------ bounds

\* Number of shuffle outcomes (strides) the deal is explored with.
MaxShuffles == 2

\* A game that is not followed to its end is followed until this many cards
\* lie on the playing area.
MaxPlays == 6

\* --------------------------------------------------------- program constants

DeckSize == 52
NumRanks == 13
Seven == 7
Six == 6
Eight == 8
Ace == 1
King == 13

\* Suit::all_suits(), in playing-area order.
AllSuits == <<"Clubs", "Diamonds", "Hearts", "Spades">>

Suits == {AllSuits[i] : i \in 1..Len(AllSuits)}

Ranks == 1..NumRanks

Card(suit, rank) == [suit |-> suit, rank |-> rank]

AllCards == {Card(s, r) : s \in Suits, r \in Ranks}

\* The designated opening card.
SevenOfHearts == Card("Hearts", Seven)

\* (players, decks) a game is created with.  A configuration marked full is
\* followed to the end of the game, the others for the first MaxPlays plays.
Configs ==
    { [players |-> 2,   decks |-> 1, full |-> FALSE],
      [players |-> 20,  decks |-> 1, full |-> TRUE],
      [players |-> 26,  decks |-> 1, full |-> TRUE],
      [players |-> 52,  decks |-> 1, full |-> TRUE],
      [players |-> 53,  decks |-> 1, full |-> TRUE],
      [players |-> 52,  decks |-> 2, full |-> TRUE],
      [players |-> 2,   decks |-> 0, full |-> TRUE] }

Min(a, b) == IF a < b THEN a ELSE b

\* Vec::len of a 0-based vector.
Len0(v) == Cardinality(DOMAIN v)

\* ------------------------------------------------------------- the deck

\* StandardDeckBuilder::new().subdecks(decks).build(): the unshuffled deck.
StandardDeck(decks) ==
    [k \in 1..(DeckSize * decks) |->
        Card(AllSuits[(((k - 1) \div NumRanks) % Len(AllSuits)) + 1],
             ((k - 1) % NumRanks) + 1)]

\* The decks of the unshuffled deck riffled into each other: the copies of
\* a card lie next to each other.  With one deck nothing moves.
Riffled(sorted, decks) ==
    [k \in 1..Len(sorted) |->
        sorted[((k - 1) % decks) * DeckSize + ((k - 1) \div decks) + 1]]

\* Shuffle outcomes as <<stride, cut>>: position i of the shuffled deck holds
\* card (stride * i + cut * decks) of the riffled one.  Every stride is
\* coprime to 52 and to 104, so each outcome is a permutation of the deck;
\* cut 32 deals the 7 of Hearts to player 0.
ShuffleSeeds == << <<1, 32>>, <<3, 0>>, <<5, 20>>, <<7, 45>>, <<9, 32>>, <<11, 0>> >>

\* One outcome of deck.shuffle(rng) on the deck riffled.
Shuffled(riffled, decks, stride, cut) ==
    [i \in 1..Len(riffled) |->
        riffled[((stride * (i - 1) + cut * decks) % Len(riffled)) + 1]]

\* The outcomes of the shuffle that are explored.
Shuffles(decks) ==
    { Shuffled(Riffled(StandardDeck(decks), decks), decks,
               ShuffleSeeds[s][1], ShuffleSeeds[s][2]) :
        s \in 1..Min(MaxShuffles, Len(ShuffleSeeds)) }

\* ------------------------------------------------------------- CardStack

Empty == [tag |-> "Empty"]
SevenOnly == [tag |-> "SevenOnly"]
LowOnly(card) == [tag |-> "LowOnly", card |-> card]
HighOnly(card) == [tag |-> "HighOnly", card |-> card]
LowAndHigh(low, high) == [tag |-> "LowAndHigh", low |-> low, high |-> high]

\* CardStack::new and CardStack::new_with_stack_state
NewStack(suit) == [suit |-> suit, stack_state |-> Empty]
NewWithStackState(suit, ss) == [suit |-> suit, stack_state |-> ss]

\* Result::Ok / Result::Err
Ok(v) == [ok |-> TRUE, value |-> v]
Err(e) == [ok |-> FALSE, err |-> e]

\* Option::None / Option::Some
None == [some |-> FALSE]
Some(v) == [some |-> TRUE, value |-> v]

\* Mutant of AddRank: an 8 on a LowOnly stack forgets the low card, a 6 on a
\* HighOnly stack forgets the high card.
AddRank_Forgets(suit, ss, card) ==
    CASE ss.tag = "Empty" ->
           IF card.rank = Seven THEN Ok(NewWithStackState(suit, SevenOnly))
           ELSE Err("RankMismatch")
      [] ss.tag = "SevenOnly" ->
           IF card.rank = Six THEN Ok(NewWithStackState(suit, LowOnly(card)))
           ELSE IF card.rank = Eight THEN Ok(NewWithStackState(suit, HighOnly(card)))
           ELSE Err("RankMismatch")
      [] ss.tag = "LowOnly" ->
           IF card.rank = ss.card.rank - 1
           THEN Ok(NewWithStackState(suit, LowOnly(card)))
           ELSE IF card.rank = Eight
           THEN Ok(NewWithStackState(suit, HighOnly(card)))
           ELSE Err("RankMismatch")
      [] ss.tag = "HighOnly" ->
           IF card.rank = ss.card.rank + 1
           THEN Ok(NewWithStackState(suit, HighOnly(card)))
           ELSE IF card.rank = Six
           THEN Ok(NewWithStackState(suit, LowOnly(card)))
           ELSE Err("RankMismatch")
      [] ss.tag = "LowAndHigh" ->
           IF card.rank = ss.low.rank - 1
           THEN Ok(NewWithStackState(suit, LowAndHigh(card, ss.high)))
           ELSE IF card.rank = ss.high.rank + 1
           THEN Ok(NewWithStackState(suit, LowAndHigh(ss.low, card)))
           ELSE IF ss.low.rank = Ace /\ ss.high.rank = King
           THEN Err("StackFull")
           ELSE Err("RankMismatch")

\* The rank match of CardStack::add, the suits being equal.
AddRank(suit, ss, card) ==
    CASE ss.tag = "Empty" ->
           IF card.rank = Seven THEN Ok(NewWithStackState(suit, SevenOnly))
           ELSE Err("RankMismatch")
      [] ss.tag = "SevenOnly" ->
           IF card.rank = Six THEN Ok(NewWithStackState(suit, LowOnly(card)))
           ELSE IF card.rank = Eight THEN Ok(NewWithStackState(suit, HighOnly(card)))
           ELSE Err("RankMismatch")
      [] ss.tag = "LowOnly" ->
           IF card.rank = ss.card.rank - 1
           THEN Ok(NewWithStackState(suit, LowOnly(card)))
           ELSE IF card.rank = Eight
           THEN Ok(NewWithStackState(suit, LowAndHigh(ss.card, card)))
           ELSE Err("RankMismatch")
      [] ss.tag = "HighOnly" ->
           IF card.rank = ss.card.rank + 1
           THEN Ok(NewWithStackState(suit, HighOnly(card)))
           ELSE IF card.rank = Six
           THEN Ok(NewWithStackState(suit, LowAndHigh(card, ss.card)))
           ELSE Err("RankMismatch")
      [] ss.tag = "LowAndHigh" ->
           IF card.rank = ss.low.rank - 1
           THEN Ok(NewWithStackState(suit, LowAndHigh(card, ss.high)))
           ELSE IF card.rank = ss.high.rank + 1
           THEN Ok(NewWithStackState(suit, LowAndHigh(ss.low, card)))
           ELSE IF ss.low.rank = Ace /\ ss.high.rank = King
           THEN Err("StackFull")
           ELSE Err("RankMismatch")

\* Mutant of add: the suits are not compared.
add_AnySuit(self, card) == AddRank(self.suit, self.stack_state, card)

\* CardStack::add
add(self, card) ==
    IF self.suit = card.suit
    THEN AddRank(self.suit, self.stack_state, card)
    ELSE Err("SuitMismatch")

\* ----------------------------------------------------------- PlayingArea

\* PlayingArea::with_deck_capacity: decks stacks per suit, suit by suit.
WithDeckCapacity(decks) ==
    [i \in 1..(Len(AllSuits) * decks) |-> NewStack(AllSuits[((i - 1) \div decks) + 1])]

\* The first index of an iteration among the indices hits, 0 when none.
FirstOf(hits) ==
    IF hits = {} THEN 0 ELSE CHOOSE i \in hits : \A j \in hits : i <= j

\* try_play's loop body at the first stack i whose add is Ok (0: no stack).
PlayOnStack(card_stacks, i, card) ==
    IF i = 0 THEN Err("CardMismatch")
    ELSE Ok([card_stacks EXCEPT ![i] = add(card_stacks[i], card).value])

\* PlayingArea::try_play
try_play(card_stacks, card) ==
    PlayOnStack(card_stacks,
                FirstOf({i \in 1..Len(card_stacks) : add(card_stacks[i], card).ok}),
                card)

\* PlayingArea::is_empty
is_empty(card_stacks) ==
    \A i \in 1..Len(card_stacks) : card_stacks[i].stack_state.tag = "Empty"

\* ---------------------------------------------------------------- Player

\* Player::with_capacity
WithCapacity(hand_size) == [hand |-> <<>>, max_card_count |-> hand_size]

\* assign_cards once the hand is extended: a non-zero capacity must equal
\* the hand's length (assert_eq!), a zero capacity is set to it.
CheckCapacity(max_card_count, hand) ==
    IF max_card_count # 0
    THEN IF max_card_count = Len(hand)
         THEN Ok([hand |-> hand, max_card_count |-> max_card_count])
         ELSE Err("Panic")
    ELSE Ok([hand |-> hand, max_card_count |-> Len(hand)])

\* Player::assign_cards
assign_cards(self, cards) == CheckCapacity(self.max_card_count, self.hand \o cards)

\* Vec::remove(idx), idx from 1.
RemoveAt(hand, idx) ==
    [i \in 1..(Len(hand) - 1) |-> IF i < idx THEN hand[i] ELSE hand[i + 1]]

\* Mutant of RemoveFound: every copy of the card leaves the hand.
RemoveFound_AllCopies(self, idx) ==
    IF idx = 0 THEN Err("Panic")
    ELSE Ok([self EXCEPT !.hand = SelectSeq(self.hand, LAMBDA c : c # self.hand[idx])])

\* remove_card at the position idx found (0: None, the unwrap panics).
RemoveFound(self, idx) ==
    IF idx = 0 THEN Err("Panic")
    ELSE Ok([self EXCEPT !.hand = RemoveAt(self.hand, idx)])

\* Mutant of remove_card: a card the player does not hold is passed over.
remove_card_Lenient(self, card) ==
    IF \E i \in 1..Len(self.hand) : self.hand[i] = card
    THEN RemoveFound(self, FirstOf({i \in 1..Len(self.hand) : self.hand[i] = card}))
    ELSE Ok(self)

\* Player::remove_card
remove_card(self, card) ==
    RemoveFound(self, FirstOf({i \in 1..Len(self.hand) : self.hand[i] = card}))

\* Player::unique_cards_in_hand
unique_cards_in_hand(self) == {self.hand[i] : i \in 1..Len(self.hand)}

\* Player::hand_len
hand_len(self) == Len(self.hand)

\* -------------------------------------------------------------- BadamSat

PrePlay == [tag |-> "PrePlay"]
InPlay(player, valid_actions) ==
    [tag |-> "InPlay", player |-> player, valid_actions |-> valid_actions]
Over(winner) == [tag |-> "Over", winner |-> winner]

DealCards == [type |-> "DealCards"]
Play(player, card) == [type |-> "Play", player |-> player, card |-> card]
Pass(player) == [type |-> "Pass", player |-> player]

\* The players of with_player_and_deck_capacity.
PlayerVec(n_players, cards_per_player, leftover) ==
    [idx \in 0..(n_players - 1) |->
        IF idx < leftover THEN WithCapacity(cards_per_player + 1)
                          ELSE WithCapacity(cards_per_player)]

\* BadamSat::with_player_and_deck_capacity (players >= 1)
with_player_and_deck_capacity(n_players, n_decks) ==
    [ state |-> PrePlay,
      players |-> PlayerVec(n_players, (n_decks * DeckSize) \div n_players,
                            (n_decks * DeckSize) % n_players),
      playing_area |-> WithDeckCapacity(n_decks),
      decks |-> n_decks,
      player_count |-> n_players ]

\* Mutant of NextOf: a stack built downwards only does not offer the 8.
NextOf_DownOnly(suit, ss) ==
    CASE ss.tag = "Empty" -> {Card(suit, Seven)}
      [] ss.tag = "SevenOnly" -> {Card(suit, Eight), Card(suit, Six)}
      [] ss.tag = "LowOnly" ->
           (IF ss.card.rank # Ace THEN {Card(suit, ss.card.rank - 1)} ELSE {})
      [] ss.tag = "HighOnly" ->
           {Card(suit, Six)} \cup
           (IF ss.card.rank # King THEN {Card(suit, ss.card.rank + 1)} ELSE {})
      [] ss.tag = "LowAndHigh" ->
           (IF ss.low.rank # Ace THEN {Card(suit, ss.low.rank - 1)} ELSE {}) \cup
           (IF ss.high.rank # King THEN {Card(suit, ss.high.rank + 1)} ELSE {})

\* The closure of find_valid_actions' flat_map: the cards a stack in state
\* ss takes next.
NextOf(suit, ss) ==
    CASE ss.tag = "Empty" -> {Card(suit, Seven)}
      [] ss.tag = "SevenOnly" -> {Card(suit, Eight), Card(suit, Six)}
      [] ss.tag = "LowOnly" ->
           {Card(suit, Eight)} \cup
           (IF ss.card.rank # Ace THEN {Card(suit, ss.card.rank - 1)} ELSE {})
      [] ss.tag = "HighOnly" ->
           {Card(suit, Six)} \cup
           (IF ss.card.rank # King THEN {Card(suit, ss.card.rank + 1)} ELSE {})
      [] ss.tag = "LowAndHigh" ->
           (IF ss.low.rank # Ace THEN {Card(suit, ss.low.rank - 1)} ELSE {}) \cup
           (IF ss.high.rank # King THEN {Card(suit, ss.high.rank + 1)} ELSE {})

NextPlayable(stack) == NextOf(stack.suit, stack.stack_state)

\* valid_cards of find_valid_actions.
ValidCards(card_stacks) ==
    UNION {NextPlayable(card_stacks[i]) : i \in 1..Len(card_stacks)}

\* Mutant of OrPass: Pass is always a valid action.
OrPass_Always(actions, player_idx) == actions \cup {Pass(player_idx)}

\* Mutant of OrPass: no Pass is inserted.
OrPass_Never(actions, player_idx) == actions

\* The end of find_valid_actions: an empty set of actions becomes {Pass}.
OrPass(actions, player_idx) ==
    IF actions = {} THEN {Pass(player_idx)} ELSE actions

\* Mutant of Retain: the first move is not restricted.
Retain_Any(actions, area_is_empty) == actions

\* The retain of find_valid_actions: first move must be 7 of hearts.
Retain(actions, area_is_empty) ==
    IF area_is_empty THEN {a \in actions : a.card = SevenOfHearts} ELSE actions

\* The actions of find_valid_actions for player_idx, after the early returns.
ActionsFor(self, player_idx) ==
    OrPass(Retain({Play(player_idx, card) :
                      card \in ValidCards(self.playing_area) \cap
                               unique_cards_in_hand(self.players[player_idx])},
                  is_empty(self.playing_area)),
           player_idx)

\* BadamSat::find_valid_actions
find_valid_actions(self) ==
    CASE self.state.tag = "PrePlay" -> Some(ActionsFor(self, 0))
      [] self.state.tag = "InPlay" ->
           IF hand_len(self.players[self.state.player]) = 0
           THEN None
           ELSE Some(ActionsFor(self, (self.state.player + 1) % Len0(self.players)))
      [] self.state.tag = "Over" -> None

\* Mutant of CardsTaken: the extra cards of the players before idx are not
\* counted.
CardsTaken_NoLeftover(idx, cards_per_player, leftover) ==
    idx * cards_per_player

\* cards_taken before player idx is served in BadamSat::deal.
CardsTaken(idx, cards_per_player, leftover) ==
    idx * cards_per_player + Min(idx, leftover)

\* deck.iter().skip(skip).take(take)
SkipTake(deck, skip, take) ==
    SubSeq(deck, Min(skip, Len(deck)) + 1, Min(skip + take, Len(deck)))

\* The loop of BadamSat::deal: each player's assign_cards.
Assigned(self, deck, cards_per_player, leftover) ==
    [idx \in DOMAIN self.players |->
        assign_cards(self.players[idx],
            SkipTake(deck, CardsTaken(idx, cards_per_player, leftover),
                     IF idx < leftover THEN cards_per_player + 1
                                       ELSE cards_per_player))]

\* The game once every assign_cards has run; Err when an assertion failed.
Dealt(self, assigned) ==
    IF \A idx \in DOMAIN assigned : assigned[idx].ok
    THEN Ok([self EXCEPT !.players = [idx \in DOMAIN assigned |-> assigned[idx].value]])
    ELSE Err("Panic")

\* BadamSat::deal; deck is the shuffled deck.
deal(self, deck) ==
    Dealt(self, Assigned(self, deck, (self.decks * DeckSize) \div self.player_count,
                         (self.decks * DeckSize) % self.player_count))

Result(result, game) == [result |-> result, game |-> game]

\* Mutant of MoveState: the next player is recorded as the winner.
MoveState_NextWins(found, player, n_players) ==
    IF found.some THEN InPlay((player + 1) % n_players, found.value)
    ELSE Over((player + 1) % n_players)

\* Mutant of MoveState: the turn stays with the player who moved.
MoveState_Stays(found, player, n_players) ==
    IF found.some THEN InPlay(player, found.value)
    ELSE Over(player)

\* The match on find_valid_actions after an accepted Play or Pass.
MoveState(found, player, n_players) ==
    IF found.some THEN InPlay((player + 1) % n_players, found.value)
    ELSE Over(player)

\* The state an accepted Play or Pass by player installs: find_valid_actions
\* runs while self.state is still the old one.
StateAfterMove(self, player) ==
    MoveState(find_valid_actions(self), player, Len0(self.players))

\* update on DealCards in PrePlay, the deal done: the expect on
\* find_valid_actions.
AfterDeal(self, found) ==
    IF found.some THEN Result("Ok", [self EXCEPT !.state = InPlay(0, found.value)])
    ELSE Result("Panic", self)

\* update on DealCards in PrePlay.
UpdateDeal(self, dealt) ==
    IF dealt.ok THEN AfterDeal(dealt.value, find_valid_actions(dealt.value))
    ELSE Result("Panic", self)

\* An accepted Play with the card on the table and out of the hand.
Moved(self, player) ==
    Result("Ok", [self EXCEPT !.state = StateAfterMove(self, player)])

\* An accepted Play after try_play: remove_card and its unwrap.
AfterPlayed(on_table, player, removed) ==
    IF removed.ok
    THEN Moved([on_table EXCEPT !.players[player] = removed.value], player)
    ELSE Result("Panic", on_table)

\* An accepted Play: try_play and its unwrap, then remove_card.
UpdatePlayed(self, card, played) ==
    IF played.ok
    THEN AfterPlayed([self EXCEPT !.playing_area = played.value], self.state.player,
                     remove_card(self.players[self.state.player], card))
    ELSE Result("Panic", self)

\* Mutant of UpdateOver: a finished game answers Ok.
UpdateOver_Ok(self, action) == Result("Ok", self)

\* update's last arm: (GameState::Over { .. }, _).
UpdateOver(self, action) == Result("InvalidTransition", self)

\* BadamSat::update.  deck is the outcome of the shuffle, read by DealCards
\* only.  The result is Ok, InvalidTransition, or Panic for a failed unwrap,
\* expect or assertion.
update(self, action, deck) ==
    CASE self.state.tag = "PrePlay" /\ action.type = "DealCards" ->
           UpdateDeal(self, deal(self, deck))
      [] self.state.tag = "PrePlay" /\ action.type # "DealCards" ->
           Result("InvalidTransition", self)
      [] self.state.tag = "InPlay" /\ action.type = "DealCards" ->
           Result("InvalidTransition", self)
      [] self.state.tag = "InPlay" /\ action.type = "Play" ->
           IF self.state.player # action.player \/ action \notin self.state.valid_actions
           THEN Result("InvalidTransition", self)
           ELSE UpdatePlayed(self, action.card, try_play(self.playing_area, action.card))
      [] self.state.tag = "InPlay" /\ action.type = "Pass" ->
           IF self.state.player # action.player \/ action \notin self.state.valid_actions
           THEN Result("InvalidTransition", self)
           ELSE Moved(self, self.state.player)
      [] self.state.tag = "Over" -> UpdateOver(self, action)

\* BadamSat::winner
winner(self) == IF self.state.tag = "Over" THEN Some(self.state.winner) ELSE None

\* Mutant of hand_of_player: a player without cards is no player.
hand_of_player_Holding(self, player) ==
    IF player \in DOMAIN self.players /\ self.players[player].hand # <<>>
    THEN Some(self.players[player].hand) ELSE None

\* BadamSat::hand_of_player
hand_of_player(self, player) ==
    IF player \in DOMAIN self.players THEN Some(self.players[player].hand) ELSE None

\* ------------------------------------------------------------------ Room

\* rooms.rs Action
ActionPlay(card) == [type |-> "Play", card |-> card]
ActionPass == [type |-> "Pass"]

RoomResult(result, room) == [result |-> result, room |-> room]

\* Mutant of is_full: the room is full one player late.
is_full_Late(self) == self.max_player_count + 1 = self.joined_players

\* Room::is_full
is_full(self) == self.max_player_count = self.joined_players

\* The unwrap of the DealCards a filling join makes.
JoinDealt(joined, dealt) ==
    IF dealt.result = "Ok"
    THEN RoomResult("Ok", [joined EXCEPT !.game = dealt.game])
    ELSE RoomResult("Panic", [joined EXCEPT !.game = dealt.game])

\* Mutant of Joined: every join deals.
Joined_Deals(joined, deck) ==
    JoinDealt(joined, update(joined.game, DealCards, deck))

\* Room::join after joined_players += 1.
Joined(joined, deck) ==
    IF is_full(joined)
    THEN JoinDealt(joined, update(joined.game, DealCards, deck))
    ELSE RoomResult("Ok", joined)

\* Room::join.  deck is the outcome of the shuffle of a deal.
join(self, deck) ==
    IF is_full(self) THEN RoomResult("RoomFull", self)
    ELSE Joined([self EXCEPT !.joined_players = self.joined_players + 1], deck)

\* The transition Room::play builds from the action.
TransitionOf(action, player) ==
    IF action.type = "Play" THEN Play(player, action.card) ELSE Pass(player)

\* Mutant of PlayUpdated: an accepted Pass is recorded as the last move too.
PlayUpdated_RecordsPass(self, action, updated) ==
    CASE updated.result = "Ok" ->
           RoomResult("Ok", [self EXCEPT !.game = updated.game, !.last_move = Some(action)])
      [] updated.result = "InvalidTransition" -> RoomResult("InvalidMove", self)
      [] updated.result = "Panic" ->
           RoomResult("Panic", [self EXCEPT !.game = updated.game])

\* Mutant of PlayUpdated: last_move is recorded whatever the game answers.
PlayUpdated_Records(self, action, updated) ==
    CASE updated.result = "Ok" ->
           RoomResult("Ok", [self EXCEPT !.game = updated.game, !.last_move = Some(action)])
      [] updated.result = "InvalidTransition" ->
           RoomResult("InvalidMove", [self EXCEPT !.last_move = Some(action)])
      [] updated.result = "Panic" ->
           RoomResult("Panic", [self EXCEPT !.game = updated.game])

\* Mutant of PlayUpdated: a game rejection is reported as TooEarly.
PlayUpdated_TooEarly(self, action, updated) ==
    CASE updated.result = "Ok" ->
           RoomResult("Ok",
              [self EXCEPT
                 !.game = updated.game,
                 !.last_move = IF action.type = "Play" THEN Some(action) ELSE @])
      [] updated.result = "InvalidTransition" -> RoomResult("TooEarly", self)
      [] updated.result = "Panic" ->
           RoomResult("Panic", [self EXCEPT !.game = updated.game])

\* The match of Room::play on the game's answer.
PlayUpdated(self, action, updated) ==
    CASE updated.result = "Ok" ->
           RoomResult("Ok",
              [self EXCEPT
                 !.game = updated.game,
                 !.last_move = IF action.type = "Play" THEN Some(action) ELSE @])
      [] updated.result = "InvalidTransition" -> RoomResult("InvalidMove", self)
      [] updated.result = "Panic" ->
           RoomResult("Panic", [self EXCEPT !.game = updated.game])

\* Room::play.  No shuffle is read: the transition is never DealCards.
play(self, action, player) ==
    IF ~is_full(self) THEN RoomResult("TooEarly", self)
    ELSE PlayUpdated(self, action, update(self.game, TransitionOf(action, player), <<>>))

\* Room::hand_of_player
room_hand_of_player(self, player) ==
    IF hand_of_player(self.game, player).some
    THEN Ok(hand_of_player(self.game, player).value)
    ELSE Err("InvalidPlayerId")

\* Room::is_game_over
is_game_over(self) == winner(self.game).some

\* Mutant of game_state: one count per seat of the room.
game_state_Seats(self) ==
    Ok([playing_area |-> self.game.playing_area,
        card_counts |-> [player \in 0..(self.max_player_count - 1) |->
                            hand_len(self.game.players[player])]])

\* Room::game_state; the unwrap of hand_len panics on a player index the
\* game does not have.
game_state(self) ==
    IF \A player \in 0..(self.joined_players - 1) : player \in DOMAIN self.game.players
    THEN Ok([playing_area |-> self.game.playing_area,
             card_counts |-> [player \in 0..(self.joined_players - 1) |->
                                 hand_len(self.game.players[player])]])
    ELSE Err("Panic")

\* server.rs ServerRoomMessage, the responder apart.
RoomAddPlayer == [type |-> "AddPlayer"]
RoomPlay(action, player) == [type |-> "Play", action |-> action, player |-> player]
RoomGameOver == [type |-> "GameOver"]
RoomLastMove == [type |-> "LastMove"]
RoomHand(player) == [type |-> "Hand", player |-> player]
RoomGameState == [type |-> "GameState"]

\* One arm of the match in Room::run: the message sent to the responder and
\* the room afterwards, or the panic of the task.
Handled(reply, room) == [panic |-> FALSE, reply |-> reply, room |-> room]
Panicked(room) == [panic |-> TRUE, reply |-> None, room |-> room]

\* The decimal digits, as characters.
Digits == <<"0", "1", "2", "3", "4", "5", "6", "7", "8", "9">>

\* usize::to_string: the decimal digits of n, the first one first.
RECURSIVE to_string(_)
to_string(n) ==
    IF n < 10 THEN <<Digits[n + 1]>>
    ELSE Append(to_string(n \div 10), Digits[(n % 10) + 1])

\* str::parse::<usize> of a string of decimal digits.
RECURSIVE parse(_)
parse(str) ==
    IF str = <<>> THEN 0
    ELSE 10 * parse(SubSeq(str, 1, Len(str) - 1))
         + (CHOOSE d \in 0..9 : Digits[d + 1] = str[Len(str)])

\* Mutant of JoinHandled: the claim's subject is the number of players
\* joined once this one has.
JoinHandled_CountsSelf(self, r) ==
    CASE r.result = "Ok" -> Handled(Ok([sub |-> to_string(r.room.joined_players)]), r.room)
      [] r.result = "RoomFull" -> Handled(Err("RoomFull"), r.room)
      [] r.result = "Panic" -> Panicked(r.room)

\* respond(responder, self.join()): the claim's subject is the number of
\* players that had joined before, as a string.
JoinHandled(self, r) ==
    CASE r.result = "Ok" -> Handled(Ok([sub |-> to_string(self.joined_players)]), r.room)
      [] r.result = "RoomFull" -> Handled(Err("RoomFull"), r.room)
      [] r.result = "Panic" -> Panicked(r.room)

\* Mutant of PlayHandled: a move the game rejects is answered Ok.
PlayHandled_Accepts(r) ==
    CASE r.result \in {"Ok", "InvalidMove"} -> Handled(Ok([unit |-> TRUE]), r.room)
      [] r.result = "TooEarly" -> Handled(Err(r.result), r.room)
      [] r.result = "Panic" -> Panicked(r.room)

\* respond(responder, self.play(action, player))
PlayHandled(r) ==
    CASE r.result = "Ok" -> Handled(Ok([unit |-> TRUE]), r.room)
      [] r.result \in {"TooEarly", "InvalidMove"} -> Handled(Err(r.result), r.room)
      [] r.result = "Panic" -> Panicked(r.room)

\* respond(responder, self.game_state())
GameStateHandled(self, r) ==
    IF r.ok THEN Handled(r.value, self) ELSE Panicked(self)

\* The match on msg in Room::run.  deck is the outcome of the shuffle, read
\* when a join deals.
Handle(self, msg, deck) ==
    CASE msg.type = "AddPlayer" -> JoinHandled(self, join(self, deck))
      [] msg.type = "Play" -> PlayHandled(play(self, msg.action, msg.player))
      [] msg.type = "GameOver" -> Handled([over |-> is_game_over(self)], self)
      [] msg.type = "LastMove" -> Handled(self.last_move, self)
      [] msg.type = "Hand" -> Handled(room_hand_of_player(self, msg.player), self)
      [] msg.type = "GameState" -> GameStateHandled(self, game_state(self))

\* Room::spawn: the Room struct; BadamSat::with_player_and_deck_capacity
\* divides by players (games.rs 232) and panics when players = 0.
RoomSpawn(players, decks) ==
    IF players = 0 THEN Err("Panic")
    ELSE Ok([joined_players |-> 0,
             game |-> with_player_and_deck_capacity(players, decks),
             max_player_count |-> players,
             last_move |-> None])

\* ---------------------------------------------------------------- Server

\* lib.rs RouterServerMessage, the responder apart (the secret key of
\* JoinRoom is not modelled).
RouterCreateRoom(players, decks) ==
    [type |-> "CreateRoom", players |-> players, decks |-> decks]
RouterJoinRoom(room) == [type |-> "JoinRoom", room |-> room]
RouterPlay(action, player, room) ==
    [type |-> "Play", action |-> action, player |-> player, room |-> room]
RouterGetHand(player, room) == [type |-> "GetHand", player |-> player, room |-> room]
RouterLastMove(room) == [type |-> "LastMove", room |-> room]
RouterGameState(room) == [type |-> "GameState", room |-> room]

\* The ServerRoomMessage a room-scoped router message is forwarded as.
Forwarded(msg) ==
    CASE msg.type = "JoinRoom" -> RoomAddPlayer
      [] msg.type = "Play" -> RoomPlay(msg.action, msg.player)
      [] msg.type = "GetHand" -> RoomHand(msg.player)
      [] msg.type = "LastMove" -> RoomLastMove
      [] msg.type = "GameState" -> RoomGameState

\* Error::from(SendError) and Error::from(RecvError), which the ? operator
\* applies (server.rs 157-158, lib.rs 112-113): the internal error
\* UnexpectedTermination.
FromSendError == "UnexpectedTermination"
FromRecvError == "UnexpectedTermination"

\* serde_json::to_value(room_id) and serde_json::from_value::<Uuid>: the
\* Uuid as a JSON string and back.
to_value(room_id) == [json |-> "String", uuid |-> room_id]
from_value(value) == value.uuid

\* What a Server method returns once the room has replied with reply.value
\* (server.rs 123-128, 152-153, 176, 190-191, 205-206); for Play an Ok is
\* followed by the GameOver message.
Replied(msg, value) ==
    CASE msg.type = "JoinRoom" ->
           IF value.ok
           THEN Ok([sub |-> value.value.sub, room_id |-> to_value(msg.room)])
           ELSE value
      [] msg.type = "Play" -> value
      [] msg.type = "GetHand" -> value
      [] msg.type = "LastMove" -> IF value.some THEN Ok(value.value) ELSE Err("NoMove")
      [] msg.type = "GameState" -> Ok(value)

\* ServerState::verify of a token this server has signed: the subject
\* parsed as the player, the room_id claim as the room (lib.rs 248-266).
\* The signature itself is not modelled.
verify(token) ==
    Ok([player_id |-> parse(token.sub), room_id |-> from_value(token.room_id)])

\* ----------------------------------------------------------------- state

VARIABLES
    joined_players,     \* Room.joined_players
    game,               \* Room.game, a BadamSat
    max_player_count,   \* Room.max_player_count
    last_move,          \* Room.last_move, an Option<Action>
    response,           \* the last call and what it returned: [op, result]
    card_stack,         \* one CardStack of a playing area
    added,              \* the last CardStack::add on it: [self, card, result]
    rooms,              \* Server.rooms: the Uuids that map to a room's Sender
    max_rooms,          \* Server.max_rooms
    actors,             \* the Room tasks spawned, by Uuid: [room, queue, pc, shadow]
    server_task,        \* where Server::run stands: [pc, env, rx]
    router_queue,       \* the mpsc channel of RouterServerMessage
    oneshots,           \* the oneshot channels created: [tx, rx, value, sends]
    callers,            \* the router handlers in flight: [pc, msg, rx, reply, during]
    calls,              \* number of requests the router has taken
    served,             \* the last request Server::run finished and how
    play_area_sender,   \* the watch channel of the playing area: [value, version]
    lock_readers,       \* the handlers that hold a read guard of RwLock<Server>
    reads               \* the playing_area handlers: [pc, seen, since, cause, returned]

roomvars == <<joined_players, game, max_player_count, last_move, response>>
stackvars == <<card_stack, added>>
servervars ==
    <<rooms, max_rooms, actors, server_task, router_queue, oneshots, callers,
      calls, served>>

watchvars == <<play_area_sender, lock_readers, reads>>

vars == <<roomvars, stackvars, servervars, watchvars>>

\* The Room struct.
Room ==
    [ joined_players |-> joined_players, game |-> game,
      max_player_count |-> max_player_count, last_move |-> last_move ]

Response(op, result) == [op |-> op, result |-> result]

\* A panicked task runs no further call.
Alive == response.result # "Panic"

\* Room::spawn (rooms.rs 25-32) for the configuration c.
Spawned(c) ==
    /\ joined_players = 0
    /\ game = with_player_and_deck_capacity(c.players, c.decks)
    /\ max_player_count = c.players
    /\ last_move = None
    /\ response = Response("spawn", "Ok")

\* CardStack::new for a stack of Hearts, add not yet called.
StackNew(suit) ==
    /\ card_stack = NewStack(suit)
    /\ added = None

\* The router handlers that can be in flight at once.
Callers == {1, 2}

\* A handler that has sent nothing.
CallerIdle ==
    [pc |-> "idle", msg |-> None, rx |-> 0, reply |-> None, during |-> {},
     gone |-> FALSE, answer |-> None, auth |-> None]

\* A Server with max_rooms = max at receiver.recv() with nothing in flight;
\* tasks are the Room tasks it has spawned, all in its directory.
ServerAtRest(max, tasks) ==
    /\ rooms = DOMAIN tasks
    /\ max_rooms = max
    /\ actors = tasks
    /\ server_task = [pc |-> "recv", env |-> None, rx |-> 0, cmd |-> 0]
    /\ router_queue = <<>>
    /\ oneshots = <<>>
    /\ callers = [c \in Callers |-> CallerIdle]
    /\ calls = 0
    /\ served = None

\* Server::spawn(max_rooms, receiver), no request taken yet.
ServerNew(max) == ServerAtRest(max, <<>>)

\* The playing_area handler followed.
Readers == {1}

\* A playing_area handler that has not been called.
ReadIdle == [pc |-> "idle", seen |-> 0, since |-> 0, cause |-> "none", returned |-> None]

\* watch::channel(game.playing_area().clone()) (src/src/server.rs 32), no
\* handler called and the lock free.
WatchNew ==
    /\ play_area_sender = [value |-> game.playing_area, version |-> 0]
    /\ lock_readers = {}
    /\ reads = [c \in Readers |-> ReadIdle]

Init ==
    /\ \E c \in Configs : Spawned(c)
    /\ StackNew("Hearts")
    /\ ServerNew(1)
    /\ WatchNew

\* Number of cards a stack in state ss holds.
StackLen(ss) ==
    CASE ss.tag = "Empty" -> 0
      [] ss.tag = "SevenOnly" -> 1
      [] ss.tag = "LowOnly" -> Seven - ss.card.rank + 1
      [] ss.tag = "HighOnly" -> ss.card.rank - Seven + 1
      [] ss.tag = "LowAndHigh" -> ss.high.rank - ss.low.rank + 1

RECURSIVE SumTo(_, _)
\* f[1] + ... + f[n]
SumTo(f, n) == IF n = 0 THEN 0 ELSE f[n] + SumTo(f, n - 1)

\* Cards embedded in the playing area.
CardsOnTable(card_stacks) ==
    SumTo([i \in 1..Len(card_stacks) |-> StackLen(card_stacks[i].stack_state)],
          Len(card_stacks))

\* Cards in all hands.
CardsInHands(g) ==
    SumTo([i \in 1..g.player_count |-> hand_len(g.players[i - 1])], g.player_count)

\* Exploration bound: whether one more card may be put on the table.
MayPlay(g) ==
    \/ \E c \in Configs : c.players = g.player_count /\ c.decks = g.decks /\ c.full
    \/ CardsOnTable(g.playing_area) < MaxPlays

\* The player to move, 0 outside InPlay.
Mover(g) == IF g.state.tag = "InPlay" THEN g.state.player ELSE 0

\* The player indices calls are made with: the player to move, the next
\* one, and the first index out of range.
PlayerInputs(g) == {Mover(g), (Mover(g) + 1) % g.player_count, g.player_count}

\* The cards every player index is tried with: the opening card and the
\* cards of the stored valid actions.
ProbeCards(g) ==
    {SevenOfHearts} \cup
    (IF g.state.tag = "InPlay"
     THEN {a.card : a \in {t \in g.state.valid_actions : t.type = "Play"}}
     ELSE {})

\* The <<player, card>> pairs a Play is tried with: the player to move with
\* every card of the deck, the other indices with the probe cards.
PlayInputs(g) == ({Mover(g)} \X AllCards) \cup (PlayerInputs(g) \X ProbeCards(g))

\* ------------------------------------------------- the room's commands

\* A Room method returned r to the call op.
Returned(op, r) ==
    /\ joined_players' = r.room.joined_players
    /\ game' = r.room.game
    /\ max_player_count' = r.room.max_player_count
    /\ last_move' = r.room.last_move
    /\ response' = Response(op, r.result)
    /\ UNCHANGED <<stackvars, servervars, watchvars>>

\* ServerRoomMessage::AddPlayer -> Room::join
AddPlayer ==
    /\ Alive
    /\ \E deck \in Shuffles(game.decks) : Returned("join", join(Room, deck))

\* Room::play returned r for action.
Played(action, r) ==
    /\ (r.result = "Ok" /\ action.type = "Play") => MayPlay(game)
    /\ Returned("play", r)

\* ServerRoomMessage::Play{action: Action::Play(card)} -> Room::play
PlayCard ==
    /\ Alive
    /\ \E in \in PlayInputs(game) :
         Played(ActionPlay(in[2]), play(Room, ActionPlay(in[2]), in[1]))

\* ServerRoomMessage::Play{action: Action::Pass} -> Room::play
PlayPass ==
    /\ Alive
    /\ \E player \in PlayerInputs(game) :
         Played(ActionPass, play(Room, ActionPass, player))

\* Room::hand_of_player returned r.
HandReturned(r) ==
    /\ response' = Response("hand", IF r.ok THEN "Ok" ELSE r.err)
    /\ UNCHANGED <<joined_players, game, max_player_count, last_move>>
    /\ UNCHANGED <<stackvars, servervars, watchvars>>

\* ServerRoomMessage::Hand -> Room::hand_of_player
Hand ==
    /\ Alive
    /\ \E player \in PlayerInputs(game) : HandReturned(room_hand_of_player(Room, player))

\* ServerRoomMessage::GameState -> Room::game_state
GameState ==
    /\ Alive
    /\ response' = Response("game_state", IF game_state(Room).ok THEN "Ok" ELSE "Panic")
    /\ UNCHANGED <<joined_players, game, max_player_count, last_move>>
    /\ UNCHANGED <<stackvars, servervars, watchvars>>

Next == AddPlayer \/ PlayCard \/ PlayPass \/ Hand \/ GameState

Spec == Init /\ [][Next]_vars

\* ------------------------------------------- the game driven directly

\* BadamSat::update returned r.
Updated(r) ==
    /\ game' = r.game
    /\ response' = Response("update", r.result)
    /\ UNCHANGED <<joined_players, max_player_count, last_move>>
    /\ UNCHANGED <<stackvars, servervars, watchvars>>

\* BadamSat::update(Transition::DealCards)
UpdateDealCards ==
    /\ Alive
    /\ \E deck \in Shuffles(game.decks) : Updated(update(game, DealCards, deck))

\* BadamSat::update(Transition::Play{player, card}) returned r.
UpdatedPlay(r) ==
    /\ r.result = "Ok" => MayPlay(game)
    /\ Updated(r)

\* BadamSat::update(Transition::Play{player, card})
UpdatePlay ==
    /\ Alive
    /\ \E in \in PlayInputs(game) : UpdatedPlay(update(game, Play(in[1], in[2]), <<>>))

\* BadamSat::update(Transition::Pass{player})
UpdatePass ==
    /\ Alive
    /\ \E player \in PlayerInputs(game) : Updated(update(game, Pass(player), <<>>))

NextGame == UpdateDealCards \/ UpdatePlay \/ UpdatePass

SpecGame == Init /\ [][NextGame]_vars

\* ------------------------------------------------- one stack built up

\* A two-player, one-deck room that takes no command.
RoomUnused == Spawned([players |-> 2, decks |-> 1, full |-> FALSE])

InitStack ==
    /\ RoomUnused
    /\ \E suit \in Suits : StackNew(suit)
    /\ ServerNew(1)
    /\ WatchNew

\* stack.add(card) returned result: try_play's loop body replaces the stack
\* by the new one when add returns Ok (games.rs 60-61).
Added(self, card, result) ==
    /\ card_stack' = IF result.ok THEN result.value ELSE self
    /\ added' = Some([self |-> self, card |-> card, result |-> result])
    /\ UNCHANGED <<roomvars, servervars, watchvars>>

\* CardStack::add with any card of the deck.
AddCard == \E card \in AllCards : Added(card_stack, card, add(card_stack, card))

NextStack == AddCard

SpecStack == InitStack /\ [][NextStack]_vars

\* ------------------------------------------------- hands taken apart

\* The players remove_card is called on.
PlayerProbes == 0..2

\* A game of 20 players with one deck or 52 players with two, dealt.
InitPlayer ==
    /\ \E c \in {d \in Configs : d.players \in {20, 52} /\ d.players # d.decks * DeckSize} :
         \E deck \in Shuffles(c.decks) :
            /\ game = update(with_player_and_deck_capacity(c.players, c.decks),
                             DealCards, deck).game
            /\ max_player_count = c.players
    /\ joined_players = max_player_count
    /\ last_move = None
    /\ response = Response("update", "Ok")
    /\ StackNew("Hearts")
    /\ ServerNew(1)
    /\ WatchNew

\* Player::remove_card on player p returned removed: the hand without the
\* card, or the panic of the unwrap, which comes before the hand is touched
\* (players.rs 72-73).
Removed(p, removed) ==
    /\ game' = IF removed.ok THEN [game EXCEPT !.players[p] = removed.value] ELSE game
    /\ response' = Response("remove_card", IF removed.ok THEN "Ok" ELSE "Panic")
    /\ UNCHANGED <<joined_players, max_player_count, last_move>>
    /\ UNCHANGED <<stackvars, servervars, watchvars>>

\* Player::remove_card with any card of the deck.
RemoveCard ==
    /\ Alive
    /\ \E p \in PlayerProbes, card \in AllCards :
         Removed(p, remove_card(game.players[p], card))

NextPlayer == RemoveCard

SpecPlayer == InitPlayer /\ [][NextPlayer]_vars

\* ------------------------------------------------- the server's actors

\* Requests the router takes in one run.
MaxCalls == 2

\* mpsc::channel(10) of a room (server.rs 99) and mpsc::channel(100) of the
\* server (lib.rs 48).
RoomMailbox == 10
RouterMailbox == 100

\* The shuffle a room of the server deals from: the first outcome.
DealtDeck(decks) ==
    Shuffled(Riffled(StandardDeck(decks), decks), decks,
             ShuffleSeeds[1][1], ShuffleSeeds[1][2])

\* oneshot::channel(): the Sender is held, the Receiver alive.
Oneshot == [tx |-> "held", rx |-> TRUE, value |-> None, sends |-> 0]

\* Mutant of Sent: the value goes to the oldest channel that still waits
\* for one.
Sent_ToOldest(os, id, value, re) ==
    IF os[id].rx
    THEN [os EXCEPT ![CHOOSE i \in DOMAIN os :
                        /\ os[i].tx = "held" /\ os[i].rx
                        /\ \A j \in DOMAIN os :
                              os[j].tx = "held" /\ os[j].rx => i <= j] =
                    [tx |-> "sent", rx |-> TRUE,
                     value |-> Some([value |-> value, re |-> re]),
                     sends |-> @.sends + 1]]
    ELSE os

\* oneshot::Sender::send(value) on channel id: the value reaches the channel
\* when the Receiver is alive.  re is the message the value answers.
Sent(os, id, value, re) ==
    IF os[id].rx
    THEN [os EXCEPT ![id] = [tx |-> "sent", rx |-> TRUE,
                             value |-> Some([value |-> value, re |-> re]),
                             sends |-> @.sends + 1]]
    ELSE os

\* The Senders of the channels ids dropped unused.
Dropped(os, ids) ==
    [id \in DOMAIN os |->
        IF id \in ids /\ os[id].tx = "held"
        THEN [os[id] EXCEPT !.tx = "dropped"] ELSE os[id]]

\* The Receiver of channel id has returned from its await, or is dropped.
Consumed(os, id) == [os EXCEPT ![id].rx = FALSE, ![id].value = None]

\* The responders of the messages of a mailbox.
Responders(queue) == {queue[i].responder : i \in DOMAIN queue}

\* A message with the Sender of the oneshot it carries.  call is the oneshot
\* of the router's request it belongs to; expect is the reply the room owes
\* it if every message before it in the mailbox is handled first (a room
\* message only).
Envelope(msg, responder, call, expect) ==
    [msg |-> msg, responder |-> responder, call |-> call, expect |-> expect]

\* tokio::spawn(room.run(receiver)) with the mailbox empty.  shadow is the
\* room after every message sent to it so far, handled in sending order.
RoomTask(room) == [room |-> room, queue |-> <<>>, pc |-> "recv", shadow |-> room]

\* Server::run is back at receiver.recv().  Inside a method, env is the
\* request, rx the oneshot awaited and cmd the oneshot that went to the room
\* with the command itself.
AtRecv == [pc |-> "recv", env |-> None, rx |-> 0, cmd |-> 0]

\* Mutant of Retained: only the rooms that wait for a message are kept.
Retained_Receiving(rs, tasks) == {r \in rs : tasks[r].pc = "recv"}

\* self.rooms.retain(|_, sender| !sender.is_closed()), server.rs 87.
Retained(rs, tasks) == {r \in rs : tasks[r].pc # "exited"}

\* respond(responder, result) and the end of the loop body of Server::run
\* (server.rs 83-87): the send fails when the handler has gone away, and
\* the loop breaks, which drops the server with its directory and mailbox.
\* served keeps the result with the place it was made at (cause), the
\* directory the method left and the oneshot sent with the command (cmd).
Responded(env, result, cause, rs, tasks, os, queue) ==
    /\ served' = Some([env |-> env, result |-> result, cause |-> cause,
                       directory |-> rs, cmd |-> server_task.cmd])
    /\ actors' = tasks
    /\ IF os[env.responder].rx
       THEN /\ oneshots' = Sent(os, env.responder, result, env)
            /\ server_task' = AtRecv
            /\ rooms' = Retained(rs, tasks)
            /\ router_queue' = queue
       ELSE /\ oneshots' = Dropped(os, Responders(queue))
            /\ server_task' = [pc |-> "exited", env |-> None, rx |-> 0, cmd |-> 0]
            /\ rooms' = {}
            /\ router_queue' = <<>>
    /\ UNCHANGED <<max_rooms, callers, calls>>
    /\ UNCHANGED <<roomvars, stackvars, watchvars>>

\* The Server task panics while it handles env: the task ends, its
\* directory, its mailbox and the responder of env are dropped.
ServerPanicked(env, queue) ==
    /\ served' = Some([env |-> env, result |-> Err("Panic"), cause |-> "panic",
                       directory |-> rooms, cmd |-> 0])
    /\ oneshots' = Dropped(oneshots, Responders(queue) \cup {env.responder})
    /\ server_task' = [pc |-> "panicked", env |-> None, rx |-> 0, cmd |-> 0]
    /\ rooms' = {}
    /\ router_queue' = <<>>
    /\ UNCHANGED <<max_rooms, actors, callers, calls>>
    /\ UNCHANGED <<roomvars, stackvars, watchvars>>

\* Mutant of CreateRoom: only the entries of rooms whose task runs count
\* against max_rooms.
CreateRoom_CountsRunning(env, spawned, queue) ==
    IF max_rooms = Cardinality({r \in rooms : actors[r].pc # "exited"})
    THEN Responded(env, Err("ServerFull"), "server_full", rooms, actors, oneshots, queue)
    ELSE IF ~spawned.ok
    THEN ServerPanicked(env, queue)
    ELSE Responded(env, Ok(Len(actors) + 1), "created",
                   rooms \cup {Len(actors) + 1},
                   Append(actors, RoomTask(spawned.value)), oneshots, queue)

\* Server::create_room and the respond that follows.  spawned is the outcome
\* of Room::spawn; the Uuid of the room is the next one unused.
CreateRoom(env, spawned, queue) ==
    IF max_rooms = Cardinality(rooms)
    THEN Responded(env, Err("ServerFull"), "server_full", rooms, actors, oneshots, queue)
    ELSE IF ~spawned.ok
    THEN ServerPanicked(env, queue)
    ELSE Responded(env, Ok(Len(actors) + 1), "created",
                   rooms \cup {Len(actors) + 1},
                   Append(actors, RoomTask(spawned.value)), oneshots, queue)

\* room_sender.send(msg).await with a new oneshot, and the server at the
\* await of its Receiver.  handled is the shadow room's answer to msg.
RoomSent(env, room, msg, pc, handled, queue) ==
    /\ Len(actors[room].queue) < RoomMailbox
    /\ actors' = [actors EXCEPT
                    ![room].queue = Append(@, Envelope(msg, Len(oneshots) + 1,
                                                       env.responder, handled.reply)),
                    ![room].shadow = handled.room]
    /\ oneshots' = Append(oneshots, Oneshot)
    /\ server_task' = [pc |-> pc, env |-> env, rx |-> Len(oneshots) + 1,
                       cmd |-> Len(oneshots) + 1]
    /\ router_queue' = queue
    /\ UNCHANGED <<rooms, max_rooms, callers, calls, served>>
    /\ UNCHANGED <<roomvars, stackvars, watchvars>>

\* Mutant of Routed: the message goes to the first room of the directory.
Routed_FirstRoom(env, room, queue) ==
    IF room \notin rooms
    THEN Responded(env, Err("InvalidRoomId"), "unknown_id", rooms, actors, oneshots, queue)
    ELSE IF actors[FirstOf(rooms)].pc = "exited"
    THEN Responded(env, Err("InvalidRoomId"), "send_failed", rooms, actors, oneshots, queue)
    ELSE RoomSent(env, FirstOf(rooms), Forwarded(env.msg), "reply",
                  Handle(actors[FirstOf(rooms)].shadow, Forwarded(env.msg),
                         DealtDeck(actors[FirstOf(rooms)].shadow.game.decks)),
                  queue)

\* The head of a room-scoped Server method: self.rooms.get(room_id) and the
\* send to the room (server.rs 115-122, 141-151, 166-175, 183-189, 198-204).
Routed(env, room, queue) ==
    IF room \notin rooms
    THEN Responded(env, Err("InvalidRoomId"), "unknown_id", rooms, actors, oneshots, queue)
    ELSE IF actors[room].pc = "exited"
    THEN Responded(env, Err("InvalidRoomId"), "send_failed", rooms, actors, oneshots, queue)
    ELSE RoomSent(env, room, Forwarded(env.msg), "reply",
                  Handle(actors[room].shadow, Forwarded(env.msg),
                         DealtDeck(actors[room].shadow.game.decks)),
                  queue)

\* The match on msg in Server::run, up to the first await on a room.
Dispatched(env, queue) ==
    IF env.msg.type = "CreateRoom"
    THEN CreateRoom(env, RoomSpawn(env.msg.players, env.msg.decks), queue)
    ELSE Routed(env, env.msg.room, queue)

\* receiver.recv() of Server::run returns a message.
ServerRecv ==
    /\ server_task.pc = "recv"
    /\ router_queue # <<>>
    /\ Dispatched(Head(router_queue), Tail(router_queue))

\* room_sender.send(GameOver).await? and the server at receiver.await?
\* (server.rs 154-158).
Probed(env, room) ==
    IF actors[room].pc = "exited"
    THEN Responded(env, Err(FromSendError), "probe_send_failed", rooms, actors,
                   Consumed(oneshots, server_task.rx), router_queue)
    ELSE /\ Len(actors[room].queue) < RoomMailbox
         /\ actors' = [actors EXCEPT
                         ![room].queue = Append(@, Envelope(RoomGameOver, Len(oneshots) + 1,
                                    env.responder,
                                    Handle(actors[room].shadow, RoomGameOver, <<>>).reply))]
         /\ oneshots' = Append(Consumed(oneshots, server_task.rx), Oneshot)
         /\ server_task' = [pc |-> "probe", env |-> env, rx |-> Len(oneshots) + 1,
                            cmd |-> server_task.cmd]
         /\ UNCHANGED <<rooms, max_rooms, router_queue, callers, calls, served>>
         /\ UNCHANGED <<roomvars, stackvars, watchvars>>

\* What follows the room's reply in a Server method.
RoomReplied(env, result) ==
    IF env.msg.type = "Play" /\ result.ok
    THEN Probed(env, env.msg.room)
    ELSE Responded(env, result, "replied", rooms, actors,
                   Consumed(oneshots, server_task.rx), router_queue)

\* receiver.await of a Server method returns: the reply of the room, or
\* the RecvError of a dropped responder, mapped to InvalidRoomId.
ServerReply ==
    /\ server_task.pc = "reply"
    /\ oneshots[server_task.rx].tx # "held"
    /\ IF oneshots[server_task.rx].tx = "sent"
       THEN RoomReplied(server_task.env,
                        Replied(server_task.env.msg,
                                oneshots[server_task.rx].value.value.value))
       ELSE Responded(server_task.env, Err("InvalidRoomId"), "reply_dropped", rooms,
                      actors, Consumed(oneshots, server_task.rx), router_queue)

\* receiver.await? of the GameOver message returns (server.rs 158-159).
ServerProbed ==
    /\ server_task.pc = "probe"
    /\ oneshots[server_task.rx].tx # "held"
    /\ IF oneshots[server_task.rx].tx = "sent"
       THEN Responded(server_task.env, Ok([unit |-> TRUE]), "probed", rooms, actors,
                      Consumed(oneshots, server_task.rx), router_queue)
       ELSE Responded(server_task.env, Err(FromRecvError), "probe_reply_dropped", rooms,
                      actors, Consumed(oneshots, server_task.rx), router_queue)

\* The handlers once the room has handled env: the one whose command it is
\* has its answer.
Answered(env, handled) ==
    [c \in Callers |->
        IF /\ callers[c].pc = "wait"
           /\ callers[c].rx = env.call
           /\ env.msg.type # "GameOver"
           /\ ~handled.panic
        THEN [callers[c] EXCEPT !.answer = Some(handled.reply)]
        ELSE callers[c]]

\* Mutant of RoomHandled: the reply is sent, the room the arm of the match
\* produced is lost.
RoomHandled_Forgets(r, env, handled) ==
    /\ IF handled.panic
       THEN /\ actors' = [actors EXCEPT ![r].queue = <<>>, ![r].pc = "exited"]
            /\ oneshots' = Dropped(oneshots, Responders(actors[r].queue))
       ELSE /\ actors' = [actors EXCEPT
                            ![r].queue = Tail(@),
                            ![r].pc = IF oneshots[env.responder].rx
                                      THEN "recv" ELSE "stopping"]
            /\ oneshots' = Sent(oneshots, env.responder, handled.reply, env)
    /\ callers' = Answered(env, handled)
    /\ UNCHANGED <<rooms, max_rooms, server_task, router_queue, calls, served>>
    /\ UNCHANGED <<roomvars, stackvars, watchvars>>

\* One turn of the loop of Room::run on the message env (rooms.rs 41-60):
\* the arm of the match, the respond, and the break when the respond fails.
\* A panic ends the task and drops the mailbox.
RoomHandled(r, env, handled) ==
    /\ IF handled.panic
       THEN /\ actors' = [actors EXCEPT ![r].room = handled.room, ![r].queue = <<>>,
                                        ![r].pc = "exited"]
            /\ oneshots' = Dropped(oneshots, Responders(actors[r].queue))
       ELSE /\ actors' = [actors EXCEPT
                            ![r].room = handled.room, ![r].queue = Tail(@),
                            ![r].pc = IF oneshots[env.responder].rx
                                      THEN "recv" ELSE "stopping"]
            /\ oneshots' = Sent(oneshots, env.responder, handled.reply, env)
    /\ callers' = Answered(env, handled)
    /\ UNCHANGED <<rooms, max_rooms, server_task, router_queue, calls, served>>
    /\ UNCHANGED <<roomvars, stackvars, watchvars>>

\* timeout(.., receiver.recv()) of Room::run returns a message.
RoomRecv ==
    \E r \in DOMAIN actors :
        /\ actors[r].pc = "recv"
        /\ actors[r].queue # <<>>
        /\ RoomHandled(r, Head(actors[r].queue),
                       Handle(actors[r].room, Head(actors[r].queue).msg,
                              DealtDeck(actors[r].room.game.decks)))

\* The timeout of Room::run elapses with no message received, or recv
\* returns None: the loop is left (rooms.rs 41, 61).  The Receiver is still
\* alive, so a send to the room still succeeds.
RoomIdle ==
    \E r \in DOMAIN actors :
        /\ actors[r].pc = "recv"
        /\ actors[r].queue = <<>>
        /\ actors' = [actors EXCEPT ![r].pc = "stopping"]
        /\ UNCHANGED <<rooms, max_rooms, server_task, router_queue, oneshots,
                       callers, calls, served>>
        /\ UNCHANGED <<roomvars, stackvars, watchvars>>

\* Room::run returns: the Receiver is dropped with the messages left in the
\* mailbox and their responders.
RoomDrop ==
    \E r \in DOMAIN actors :
        /\ actors[r].pc = "stopping"
        /\ actors' = [actors EXCEPT ![r].pc = "exited", ![r].queue = <<>>]
        /\ oneshots' = Dropped(oneshots, Responders(actors[r].queue))
        /\ UNCHANGED <<rooms, max_rooms, server_task, router_queue, callers,
                       calls, served>>
        /\ UNCHANGED <<roomvars, stackvars, watchvars>>

\* The requests the router is given.
RequestInputs ==
    {RouterCreateRoom(2, 1), RouterCreateRoom(0, 1), RouterJoinRoom(1),
     RouterPlay(ActionPlay(SevenOfHearts), 0, 1),
     RouterPlay(ActionPlay(Card("Hearts", Six)), 1, 1),
     RouterGetHand(0, 1), RouterLastMove(1), RouterGameState(1)}

\* The tokens the clients hold: those of the joins whose reply a handler
\* has returned.
Tokens ==
    {callers[c].reply.value.value :
        c \in {d \in Callers : /\ callers[d].pc = "done"
                                /\ callers[d].msg.value.type = "JoinRoom"
                                /\ callers[d].reply.value.ok}}

\* The messages of the handlers play and hand_of_player for the
\* AuthenticatedPlayer player (lib.rs 147-152, 180-184).
Authenticated(player) ==
    {RouterPlay(ActionPlay(SevenOfHearts), player.player_id, player.room_id),
     RouterGetHand(player.player_id, player.room_id)}

\* A request with the bearer token it came with, if any: the requests of
\* RequestInputs, and play and get_hand with a token of Tokens, which
\* from_request_parts has verified (lib.rs 276-284).
Requests ==
    {[msg |-> msg, auth |-> None] : msg \in RequestInputs}
        \cup UNION {{[msg |-> msg, auth |-> Some(token)] :
                        msg \in Authenticated(verify(token).value)} :
                    token \in Tokens}

\* The task of the room a request names has ended.
Gone(msg) ==
    /\ msg.type # "CreateRoom"
    /\ msg.room \in DOMAIN actors
    /\ actors[msg.room].pc = "exited"

\* The calls of the other handlers that are pending.
Pending(c) == {callers[d].rx : d \in {d \in Callers \ {c} : callers[d].pc = "wait"}}

\* A router handler up to its receiver.await (lib.rs 99-204):
\* state.sender.send(msg).await? fails when the Server task has ended.
\* during and gone keep what the handler found: the calls pending beside
\* it, and whether the room it names had already ended; answer is the reply
\* of the room to the command of this call, once the room has handled it.
\* auth is the bearer token of the request.
\* The handlers are alike: the first one free takes the request.
Called(c, msg, auth) ==
        /\ callers[c].pc # "wait"
        /\ \A d \in Callers : d < c => callers[d].pc = "wait"
        /\ calls < MaxCalls
        /\ calls' = calls + 1
        /\ IF server_task.pc \in {"exited", "panicked"}
           THEN /\ callers' = [callers EXCEPT ![c] =
                      [pc |-> "done", msg |-> Some(msg), rx |-> 0,
                       reply |-> Some(Err(FromSendError)), during |-> Pending(c),
                       gone |-> Gone(msg), answer |-> None, auth |-> auth]]
                /\ UNCHANGED <<router_queue, oneshots>>
           ELSE /\ Len(router_queue) < RouterMailbox
                /\ router_queue' = Append(router_queue,
                                          Envelope(msg, Len(oneshots) + 1,
                                                   Len(oneshots) + 1, None))
                /\ oneshots' = Append(oneshots, Oneshot)
                /\ callers' = [callers EXCEPT ![c] =
                      [pc |-> "wait", msg |-> Some(msg), rx |-> Len(oneshots) + 1,
                       reply |-> None, during |-> Pending(c), gone |-> Gone(msg),
                       answer |-> None, auth |-> auth]]
        /\ UNCHANGED <<rooms, max_rooms, actors, server_task, served>>
        /\ UNCHANGED <<roomvars, stackvars, watchvars>>

Call == \E c \in Callers, request \in Requests : Called(c, request.msg, request.auth)

\* receiver.await? of a router handler returns: the Server's result, or the
\* error made of the RecvError of a dropped responder.
Receive ==
    \E c \in Callers :
        /\ callers[c].pc = "wait"
        /\ oneshots[callers[c].rx].tx # "held"
        /\ callers' = [callers EXCEPT
                         ![c].pc = "done",
                         ![c].reply = IF oneshots[callers[c].rx].tx = "sent"
                                      THEN Some(oneshots[callers[c].rx].value.value.value)
                                      ELSE Some(Err(FromRecvError))]
        /\ oneshots' = Consumed(oneshots, callers[c].rx)
        /\ UNCHANGED <<rooms, max_rooms, actors, server_task, router_queue, calls, served>>
        /\ UNCHANGED <<roomvars, stackvars, watchvars>>

\* The request of handler c is the one the Server responds to next.
NextServed(c) ==
    \/ /\ server_task.pc \in {"reply", "probe"}
       /\ server_task.env.responder = callers[c].rx
    \/ /\ server_task.pc = "recv"
       /\ router_queue # <<>>
       /\ Head(router_queue).responder = callers[c].rx

\* The HTTP client goes away and the handler's future is dropped at its
\* receiver.await, with the Receiver.  The Server looks at the Receiver only
\* when it responds, so the drop is taken once the request is the next to
\* be responded to.
Disconnect ==
    \E c \in Callers :
        /\ callers[c].pc = "wait"
        /\ NextServed(c)
        /\ callers' = [callers EXCEPT ![c] = CallerIdle]
        /\ oneshots' = Consumed(oneshots, callers[c].rx)
        /\ UNCHANGED <<rooms, max_rooms, actors, server_task, router_queue, calls, served>>
        /\ UNCHANGED <<roomvars, stackvars, watchvars>>

\* The room of create_room(2, 1) after its first n joins.
RECURSIVE RoomJoined(_)
RoomJoined(n) ==
    IF n = 0 THEN RoomSpawn(2, 1).value
    ELSE join(RoomJoined(n - 1), DealtDeck(1)).room

\* The server starts with no room, or with the one room of
\* create_room(2, 1) and up to 2 joins behind it, every reply received.
InitServer ==
    /\ RoomUnused
    /\ StackNew("Hearts")
    /\ \/ ServerNew(1)
       \/ \E n \in 0..2 : ServerAtRest(1, <<RoomTask(RoomJoined(n))>>)
    /\ WatchNew

NextServer ==
    \/ Call
    \/ Receive
    \/ Disconnect
    \/ ServerRecv
    \/ ServerReply
    \/ ServerProbed
    \/ RoomRecv
    \/ RoomIdle
    \/ RoomDrop

SpecServer == InitServer /\ [][NextServer]_vars

\* The room of create_room(players, 1) once its last player has joined:
\* each join before the last one adds one to joined_players and leaves the
\* game alone (rooms.rs 69-73), the last one deals.
RoomFilled(players) ==
    join([RoomSpawn(players, 1).value EXCEPT !.joined_players = players - 1],
         DealtDeck(1)).room

\* The players of a deck that leaves each of them one card.
OneCardEach == DeckSize

\* The server with the one room of create_room(52, 1) and its 52 joins
\* behind it: every player holds one card, and the first card played ends
\* the game.
InitLastCard ==
    /\ RoomUnused
    /\ StackNew("Hearts")
    /\ ServerAtRest(1, <<RoomTask(RoomFilled(OneCardEach))>>)
    /\ WatchNew

SpecLastCard == InitLastCard /\ [][NextServer]_vars

\* ----------------------------------------------- two rooms side by side

\* The requests given to a server of two rooms: a join and two plays for
\* room 1, a play for room 2.
RoomRequests ==
    {RouterJoinRoom(1),
     RouterPlay(ActionPlay(SevenOfHearts), 0, 1),
     RouterPlay(ActionPlay(Card("Hearts", Six)), 1, 1),
     RouterPlay(ActionPlay(SevenOfHearts), 0, 2)}

\* The handlers join_room and play called with a request of RoomRequests.
CallRoom == \E c \in Callers, msg \in RoomRequests : Called(c, msg, None)

\* A server of max_rooms = 2 with two rooms of create_room(2, 1): room 1
\* with one join behind it, room 2 with both, its game dealt.
InitRooms ==
    /\ RoomUnused
    /\ StackNew("Hearts")
    /\ ServerAtRest(2, <<RoomTask(RoomJoined(1)), RoomTask(RoomJoined(2))>>)
    /\ WatchNew

NextRooms ==
    \/ CallRoom
    \/ Receive
    \/ Disconnect
    \/ ServerRecv
    \/ ServerReply
    \/ ServerProbed
    \/ RoomRecv
    \/ RoomIdle
    \/ RoomDrop

SpecRooms == InitRooms /\ [][NextRooms]_vars

\* -------------------------------- the single-room server and its watch

\* Moves the single-room server accepts in one run.
MaxPublished == 3

\* watch::Sender::send_replace(area): the value is replaced and the version
\* of the channel moves on.
Published(self, area) == [value |-> area, version |-> self.version + 1]

\* Server::play of the single-room server returned r
\* (src/src/server.rs 89-108): an accepted move is followed by
\* play_area_sender.send_replace(self.playing_area().clone()).  This Server
\* keeps no last move.
ServerPlayed(r) ==
    /\ r.result = "Ok" => play_area_sender.version < MaxPublished
    /\ game' = r.room.game
    /\ response' = Response("play", r.result)
    /\ play_area_sender' = IF r.result = "Ok"
                           THEN Published(play_area_sender, r.room.game.playing_area)
                           ELSE play_area_sender
    /\ UNCHANGED <<joined_players, max_player_count, last_move>>
    /\ UNCHANGED <<lock_readers, reads>>
    /\ UNCHANGED <<stackvars, servervars>>

\* The handler play: server.write().await.play(action, player_id.id)
\* (src/src/main.rs 237-248).  The write guard is held for the call only, and
\* is had when no read guard is held.
WatchPlay ==
    /\ Alive
    /\ lock_readers = {}
    /\ \E player \in {Mover(game), (Mover(game) + 1) % game.player_count} :
          \/ \E card \in ProbeCards(game) :
                ServerPlayed(play(Room, ActionPlay(card), player))
          \/ ServerPlayed(play(Room, ActionPass, player))

\* The handler join: server.write().await.join() (src/src/main.rs 226-235).
WatchJoin ==
    /\ lock_readers = {}
    /\ AddPlayer

\* playing_area up to server.read().await: the read guard is taken.
PlayingAreaRead ==
    \E c \in Readers :
        /\ reads[c].pc = "idle"
        /\ reads' = [reads EXCEPT ![c].pc = "locked"]
        /\ lock_readers' = lock_readers \cup {c}
        /\ UNCHANGED play_area_sender
        /\ UNCHANGED <<roomvars, stackvars, servervars>>

\* Mutant of Subscribed: the read guard lives as long as the receiver.
Subscribed_KeepsGuard(c) ==
    /\ reads' = [reads EXCEPT ![c] = [pc |-> "select", seen |-> play_area_sender.version,
                                      since |-> play_area_sender.version,
                                      cause |-> "none", returned |-> None]]
    /\ lock_readers' = lock_readers

\* .play_area_sender.subscribe() and the end of the let statement, where the
\* read guard is dropped (src/src/main.rs 252): the receiver has seen the
\* version current now.  since keeps that version.
Subscribed(c) ==
    /\ reads' = [reads EXCEPT ![c] = [pc |-> "select", seen |-> play_area_sender.version,
                                      since |-> play_area_sender.version,
                                      cause |-> "none", returned |-> None]]
    /\ lock_readers' = lock_readers \ {c}

PlayingAreaSubscribe ==
    \E c \in Readers :
        /\ reads[c].pc = "locked"
        /\ Subscribed(c)
        /\ UNCHANGED play_area_sender
        /\ UNCHANGED <<roomvars, stackvars, servervars>>

\* The select! is left through receiver.changed(): the channel has a
\* version the receiver has not seen, which is now seen.
PlayingAreaChanged ==
    \E c \in Readers :
        /\ reads[c].pc = "select"
        /\ play_area_sender.version # reads[c].seen
        /\ reads' = [reads EXCEPT ![c].pc = "woken", ![c].cause = "changed",
                                  ![c].seen = play_area_sender.version]
        /\ UNCHANGED <<play_area_sender, lock_readers>>
        /\ UNCHANGED <<roomvars, stackvars, servervars>>

\* The select! is left through sleep(Duration::from_secs(10)).
PlayingAreaElapsed ==
    \E c \in Readers :
        /\ reads[c].pc = "select"
        /\ reads' = [reads EXCEPT ![c].pc = "woken", ![c].cause = "elapsed"]
        /\ UNCHANGED <<play_area_sender, lock_readers>>
        /\ UNCHANGED <<roomvars, stackvars, servervars>>

\* receiver.borrow().clone() and the return (src/src/main.rs 258-260).
PlayingAreaBorrow ==
    \E c \in Readers :
        /\ reads[c].pc = "woken"
        /\ reads' = [reads EXCEPT ![c].pc = "done",
                                  ![c].returned = Some(play_area_sender.value)]
        /\ UNCHANGED <<play_area_sender, lock_readers>>
        /\ UNCHANGED <<roomvars, stackvars, servervars>>

\* The single-room server for two players and one deck, nobody joined.
InitWatch ==
    /\ RoomUnused
    /\ StackNew("Hearts")
    /\ ServerNew(1)
    /\ WatchNew

NextWatch ==
    \/ WatchJoin
    \/ WatchPlay
    \/ PlayingAreaRead
    \/ PlayingAreaSubscribe
    \/ PlayingAreaChanged
    \/ PlayingAreaElapsed
    \/ PlayingAreaBorrow

SpecWatch == InitWatch /\ [][NextWatch]_vars

\* The runtime polls a handler that can go on, and the sleep ends.
FairWatch ==
    /\ SpecWatch
    /\ WF_vars(PlayingAreaSubscribe)
    /\ WF_vars(PlayingAreaChanged)
    /\ WF_vars(PlayingAreaElapsed)
    /\ WF_vars(PlayingAreaBorrow)

\* ================================================================ claims

\* Whether update answers Ok / InvalidTransition to the move t.
Accepts(g, t) == update(g, t, <<>>).result = "Ok"
Rejects(g, t) == update(g, t, <<>>).result = "InvalidTransition"

\* Whether player p holds the card.
Holds(g, p, card) ==
    /\ p \in DOMAIN g.players
    /\ \E i \in 1..Len(g.players[p].hand) : g.players[p].hand[i] = card

\* Whether some stack's add accepts the card.
SomeStackTakes(g, card) ==
    \E i \in 1..Len(g.playing_area) : add(g.playing_area[i], card).ok

\* Whether the rules let the card be played now: a stack takes it and, on an
\* empty playing area, it is the 7 of Hearts.
Playable(g, card) ==
    /\ SomeStackTakes(g, card)
    /\ is_empty(g.playing_area) => card = SevenOfHearts

\* Whether p holds a card that is playable now.
HoldsPlayable(g, p) ==
    /\ p \in DOMAIN g.players
    /\ \E i \in 1..Len(g.players[p].hand) : Playable(g, g.players[p].hand[i])

TotalCards(g) == CardsInHands(g) + CardsOnTable(g.playing_area)

RoomState == <<joined_players, game, max_player_count, last_move>>

\* ---- C1
\* C1 as stated: in every reachable state, from creation on, the cards in all
\* hands plus the cards embedded in the stacks number decks x 52.
C1_Original == TotalCards(game) = game.decks * DeckSize

\* C1 (amended): in every state from DealCards on (InPlay or Over), after any
\* accepted or rejected Play/Pass, the cards in all hands plus the cards
\* embedded in the stacks number decks x 52; before the deal (PrePlay) the
\* hands and the playing area hold no card.
C1_CardsConserved ==
    TotalCards(game) = IF game.state.tag = "PrePlay" THEN 0 ELSE game.decks * DeckSize

\* A finished game with several cards on the table, after a rejected attempt.
C1_Witness ==
    /\ game.state.tag = "Over"
    /\ CardsOnTable(game.playing_area) >= 2
    /\ CardsInHands(game) > 0
    /\ response = Response("update", "InvalidTransition")

\* ---- C2
\* What C2 says of one Play or Pass t offered to the game g.
C2_Move(g, t) ==
    /\ Accepts(g, t) \/ Rejects(g, t)
    /\ Accepts(g, t) <=> /\ g.state.tag = "InPlay"
                         /\ t.player = g.state.player
                         /\ t \in g.state.valid_actions
    /\ (g.state.tag = "InPlay" /\ t.player # g.state.player) => Rejects(g, t)
    /\ (t.type = "Play" /\ ~Holds(g, t.player, t.card)) => Rejects(g, t)
    /\ (t.type = "Play" /\ Holds(g, t.player, t.card) /\ ~SomeStackTakes(g, t.card))
          => Rejects(g, t)
    /\ (t.type = "Pass" /\ HoldsPlayable(g, t.player)) => Rejects(g, t)

\* C2: update accepts a Play or Pass iff the game is InPlay, the player is
\* the current player and the transition is in the stored valid_actions; a
\* move by a non-current player, a Play of a card the player does not hold,
\* a Play of a held card no stack can take, and a Pass while the player holds
\* a card that is playable now are rejected with InvalidTransition.
C2_AcceptsIffValid ==
    /\ \A in \in PlayInputs(game) : C2_Move(game, Play(in[1], in[2]))
    /\ \A p \in PlayerInputs(game) : C2_Move(game, Pass(p))

\* A rejected attempt in a running game whose current player holds a playable
\* card (so cannot pass), a card no stack takes, and lacks some card.
C2_Witness ==
    /\ game.state.tag = "InPlay"
    /\ response = Response("update", "InvalidTransition")
    /\ CardsOnTable(game.playing_area) > 0
    /\ HoldsPlayable(game, game.state.player)
    /\ Rejects(game, Pass(game.state.player))
    /\ \E c \in AllCards : Holds(game, game.state.player, c) /\ ~SomeStackTakes(game, c)
    /\ \E c \in AllCards : ~Holds(game, game.state.player, c) /\ SomeStackTakes(game, c)

\* ---- C3
Rejections == {"InvalidTransition", "RoomFull", "TooEarly", "InvalidMove", "InvalidPlayerId"}

\* A rejected BadamSat::update returns the game it was given.
C3_UpdateRejects(g, t, deck) ==
    update(g, t, deck).result = "InvalidTransition" => update(g, t, deck).game = g

C3_State ==
    /\ \A in \in PlayInputs(game) : C3_UpdateRejects(game, Play(in[1], in[2]), <<>>)
    /\ \A p \in PlayerInputs(game) : C3_UpdateRejects(game, Pass(p), <<>>)
    /\ \A deck \in Shuffles(game.decks) : C3_UpdateRejects(game, DealCards, deck)

C3_Step == response'.result \in Rejections => UNCHANGED RoomState

\* C3: every rejected operation leaves state as it was: a rejected update
\* leaves the game unchanged, and a room command answered RoomFull, TooEarly,
\* InvalidMove or InvalidPlayerId leaves joined-player count, game and last
\* move unchanged.
C3_RejectedUnchanged == [](C3_State) /\ [][C3_Step]_vars

\* A play rejected after a card was played.
C3_Witness ==
    /\ response = Response("play", "InvalidMove")
    /\ game.state.tag = "InPlay"
    /\ last_move.some
    /\ CardsOnTable(game.playing_area) > 0

\* ---- C4
C4_State ==
    game.state.tag = "Over" =>
        /\ \A in \in PlayInputs(game) : Rejects(game, Play(in[1], in[2]))
        /\ \A p \in PlayerInputs(game) \cup {game.state.winner} : Rejects(game, Pass(p))
        /\ \A deck \in Shuffles(game.decks) :
              update(game, DealCards, deck).result = "InvalidTransition"

C4_Step ==
    game.state.tag = "Over" =>
        /\ game' = game
        /\ response'.result = "InvalidTransition"

\* C4: Over is terminal: once the game is Over every later DealCards, Play
\* or Pass is rejected, and winner, hands and playing area never change.
C4_OverIsTerminal == [](C4_State) /\ [][C4_Step]_vars

\* A finished game that has rejected an attempt.
C4_Witness ==
    /\ game.state.tag = "Over"
    /\ response = Response("update", "InvalidTransition")
    /\ CardsOnTable(game.playing_area) > 0

\* ---- C5
\* C5: whenever the game is InPlay its stored valid_actions is non-empty.
C5_ValidActionsNonEmpty ==
    game.state.tag = "InPlay" => game.state.valid_actions # {}

\* Mid-game, the player to move has no playable card: the set is {Pass}.
C5_Witness ==
    /\ game.state.tag = "InPlay"
    /\ CardsOnTable(game.playing_area) > 0
    /\ game.state.valid_actions = {Pass(game.state.player)}
    /\ hand_len(game.players[game.state.player]) > 0

\* ---- C6
\* The answer of Room::play to a Play of card by player.
PlayAnswer(player, card) == play(Room, ActionPlay(card), player).result

C6_State ==
    (game.state.tag = "InPlay" /\ is_full(Room)) =>
        IF is_empty(game.playing_area)
        THEN /\ \A in \in PlayInputs(game) :
                  IF /\ in[1] = game.state.player
                     /\ in[2] = SevenOfHearts
                     /\ Holds(game, in[1], in[2])
                  THEN PlayAnswer(in[1], in[2]) = "Ok"
                  ELSE PlayAnswer(in[1], in[2]) = "InvalidMove"
             /\ ~Holds(game, game.state.player, SevenOfHearts) =>
                  /\ game.state.valid_actions = {Pass(game.state.player)}
                  /\ play(Room, ActionPass, game.state.player).result = "Ok"
        ELSE \A c \in AllCards :
                (Holds(game, game.state.player, c) /\ SomeStackTakes(game, c))
                    => PlayAnswer(game.state.player, c) = "Ok"

C6_Step ==
    (is_empty(game.playing_area) /\ ~is_empty(game'.playing_area)) =>
        /\ response' = Response("play", "Ok")
        /\ last_move' = Some(ActionPlay(SevenOfHearts))
        /\ CardsOnTable(game'.playing_area) = 1
        /\ Holds(game, game.state.player, SevenOfHearts)
        /\ hand_len(game'.players[game.state.player]) =
              hand_len(game.players[game.state.player]) - 1

\* C6: while every stack is Empty the only Play that can be accepted is the
\* 7 of Hearts by the current player (a current player not holding it can
\* only Pass), any other first Play is rejected as InvalidMove, and once a
\* stack is non-empty every held card a stack takes can be played.
C6_OpeningCard == [](C6_State) /\ [][C6_Step]_vars

\* A first Play other than the 7 of Hearts was just rejected, the player to
\* move holding a 7 but not the 7 of Hearts.
C6_Witness ==
    /\ game.state.tag = "InPlay"
    /\ is_empty(game.playing_area)
    /\ response = Response("play", "InvalidMove")
    /\ ~Holds(game, game.state.player, SevenOfHearts)
    /\ \E c \in AllCards : c.rank = Seven /\ Holds(game, game.state.player, c)

\* ---- C7
NoCards(g) == \A p \in DOMAIN g.players : hand_len(g.players[p]) = 0

\* An accepted Play or Pass: the step of an update answered Ok in InPlay.
AcceptedMove == game.state.tag = "InPlay" /\ response' = Response("update", "Ok")

C7_Step ==
    AcceptedMove =>
        /\ game'.state.tag = "Over" <=>
              \/ /\ hand_len(game.players[game.state.player]) > 0
                 /\ hand_len(game'.players[game.state.player]) = 0
              \/ NoCards(game')
        /\ game'.state.tag = "Over" => game'.state.winner = game.state.player
        /\ game'.state.tag # "Over" => game'.state.tag = "InPlay"

\* C7: an accepted move makes the game Over exactly when it empties the
\* mover's hand (or no player retains cards), the winner then being the
\* player who just moved; otherwise the game stays InPlay.
C7_OverWhenHandEmptied == [][C7_Step]_vars

\* The move that ended a game with more than one card on the table.
C7_Witness ==
    /\ game.state.tag = "Over"
    /\ response = Response("update", "Ok")
    /\ CardsOnTable(game.playing_area) > 1
    /\ hand_len(game.players[game.state.winner]) = 0

\* ---- C8
C8_Step ==
    response'.op = "join" =>
        /\ response'.result = "RoomFull" <=> joined_players = max_player_count
        /\ response'.result = "RoomFull" => joined_players' = joined_players
        /\ response'.result = "Ok" => joined_players' = joined_players + 1
        /\ response'.result \in {"Ok", "RoomFull"}

\* C8: a room for M players accepts exactly M joins: AddPlayer is answered
\* RoomFull exactly when the roster equals M, every other join adds one
\* player, and the joined-player count never exceeds M.
C8_RoomFull == [](joined_players <= max_player_count) /\ [][C8_Step]_vars

\* A join refused by a full room.
C8_Witness ==
    /\ response = Response("join", "RoomFull")
    /\ joined_players = max_player_count

\* ---- C9
C9_State == game.state.tag = "PrePlay" <=> joined_players < max_player_count

C9_Step ==
    /\ (game.state.tag = "PrePlay" /\ game'.state.tag # "PrePlay") =>
          /\ response' = Response("join", "Ok")
          /\ joined_players + 1 = max_player_count
          /\ joined_players' = max_player_count
          /\ game'.state.tag = "InPlay"
          /\ CardsInHands(game') = game.decks * DeckSize
    /\ game.state.tag # "PrePlay" =>
          /\ game'.state.tag # "PrePlay"
          /\ CardsInHands(game') <= CardsInHands(game)

\* C9: the game is PrePlay exactly while the roster is below max players:
\* the deal happens in the step of the join that fills the roster, once, and
\* no later command deals again or returns the game to PrePlay.
C9_DealOnFill == [](C9_State) /\ [][C9_Step]_vars

\* The join that filled the room and dealt.
C9_Witness ==
    /\ response = Response("join", "Ok")
    /\ joined_players = max_player_count
    /\ game.state.tag = "InPlay"
    /\ CardsInHands(game) = game.decks * DeckSize
    /\ game.decks > 0

\* ---- C10
\* What C10 says of the answer of Room::play to action by player.
C10_Answer(action, player) ==
    IF joined_players # max_player_count
    THEN play(Room, action, player) = RoomResult("TooEarly", Room)
    ELSE /\ play(Room, action, player).result \in {"Ok", "InvalidMove"}
         /\ play(Room, action, player).result = "Ok"
               <=> Accepts(game, TransitionOf(action, player))
         /\ play(Room, action, player).result = "Ok"
               => play(Room, action, player).room.game =
                     update(game, TransitionOf(action, player), <<>>).game
         /\ game.state.tag = "Over" => play(Room, action, player).result = "InvalidMove"

C10_State ==
    /\ \A in \in PlayInputs(game) : C10_Answer(ActionPlay(in[2]), in[1])
    /\ \A p \in PlayerInputs(game) : C10_Answer(ActionPass, p)

C10_Step ==
    response'.op = "play" =>
        IF joined_players # max_player_count
        THEN response'.result = "TooEarly" /\ game' = game
        ELSE response'.result \in {"Ok", "InvalidMove"}

\* C10: a Play or Pass sent before the roster is full is answered TooEarly
\* and does not reach the game; once the room is full every Play or Pass is
\* delegated to the game and a game rejection is answered InvalidMove, never
\* TooEarly, also after the game is Over.
C10_TooEarlyOrDelegated == [](C10_State) /\ [][C10_Step]_vars

\* A move sent to a finished game was answered InvalidMove.
C10_Witness ==
    /\ game.state.tag = "Over"
    /\ response = Response("play", "InvalidMove")
    /\ joined_players = max_player_count

\* ---- C19
\* The lowest and the highest rank a non-Empty stack state records.
LowRank(ss) ==
    CASE ss.tag = "SevenOnly" -> Seven
      [] ss.tag = "LowOnly" -> ss.card.rank
      [] ss.tag = "HighOnly" -> Seven
      [] ss.tag = "LowAndHigh" -> ss.low.rank

HighRank(ss) ==
    CASE ss.tag = "SevenOnly" -> Seven
      [] ss.tag = "LowOnly" -> Seven
      [] ss.tag = "HighOnly" -> ss.card.rank
      [] ss.tag = "LowAndHigh" -> ss.high.rank

\* The cards a stack state records are of the stack's suit.
OfSuit(stack) ==
    CASE stack.stack_state.tag \in {"Empty", "SevenOnly"} -> TRUE
      [] stack.stack_state.tag \in {"LowOnly", "HighOnly"} ->
           stack.stack_state.card.suit = stack.suit
      [] stack.stack_state.tag = "LowAndHigh" ->
           /\ stack.stack_state.low.suit = stack.suit
           /\ stack.stack_state.high.suit = stack.suit

\* The span of a non-Empty stack contains 7 and lies within Ace..King.
C19_State ==
    /\ OfSuit(card_stack)
    /\ card_stack.stack_state.tag # "Empty" =>
          /\ Ace <= LowRank(card_stack.stack_state)
          /\ LowRank(card_stack.stack_state) <= Seven
          /\ Seven <= HighRank(card_stack.stack_state)
          /\ HighRank(card_stack.stack_state) <= King

\* One step of a stack: the bounds move outward by the card played, one rank
\* at a time, or stay.
C19_Step ==
    /\ card_stack'.suit = card_stack.suit
    /\ card_stack.stack_state.tag # "Empty" =>
          /\ card_stack'.stack_state.tag # "Empty"
          /\ LowRank(card_stack'.stack_state) <= LowRank(card_stack.stack_state)
          /\ HighRank(card_stack'.stack_state) >= HighRank(card_stack.stack_state)
          /\ LowRank(card_stack'.stack_state) >= LowRank(card_stack.stack_state) - 1
          /\ HighRank(card_stack'.stack_state) <= HighRank(card_stack.stack_state) + 1
          /\ StackLen(card_stack'.stack_state) >= StackLen(card_stack.stack_state)
    /\ card_stack' # card_stack =>
          /\ added'.value.result.ok
          /\ StackLen(card_stack'.stack_state) = StackLen(card_stack.stack_state) + 1
          /\ added'.value.card.suit = card_stack.suit
          /\ added'.value.card.rank \in
                {LowRank(card_stack'.stack_state), HighRank(card_stack'.stack_state)}

\* C19: across any sequence of plays a stack's bounds only move outward: the
\* low rank never increases, the high rank never decreases, each accepted
\* card extends the span by one rank so that it stays contiguous and
\* contains 7, and a non-Empty stack never becomes Empty or shorter again.
C19_BoundsMoveOutward == [](C19_State) /\ [][C19_Step]_vars

\* A stack built on both sides of the 7, its last card accepted on the low
\* side.
C19_Witness ==
    /\ card_stack.stack_state.tag = "LowAndHigh"
    /\ card_stack.stack_state.low.rank < Six
    /\ card_stack.stack_state.high.rank > Eight
    /\ added.some
    /\ added.value.result.ok
    /\ added.value.card = card_stack.stack_state.low

\* ---- C20
\* The ranks the build order lets a stack state take next.
BuildOrder(ss) ==
    CASE ss.tag = "Empty" -> {Seven}
      [] ss.tag = "SevenOnly" -> {Six, Eight}
      [] ss.tag = "LowOnly" -> {ss.card.rank - 1, Eight}
      [] ss.tag = "HighOnly" -> {ss.card.rank + 1, Six}
      [] ss.tag = "LowAndHigh" -> {ss.low.rank - 1, ss.high.rank + 1}

IsFull(ss) == ss.tag = "LowAndHigh" /\ ss.low.rank = Ace /\ ss.high.rank = King

\* The stack state the build order gives after the card is taken.
BuildNext(ss, card) ==
    CASE ss.tag = "Empty" -> SevenOnly
      [] ss.tag = "SevenOnly" ->
           IF card.rank = Six THEN LowOnly(card) ELSE HighOnly(card)
      [] ss.tag = "LowOnly" ->
           IF card.rank = Eight THEN LowAndHigh(ss.card, card) ELSE LowOnly(card)
      [] ss.tag = "HighOnly" ->
           IF card.rank = Six THEN LowAndHigh(card, ss.card) ELSE HighOnly(card)
      [] ss.tag = "LowAndHigh" ->
           IF card.rank < Seven THEN LowAndHigh(card, ss.high)
           ELSE LowAndHigh(ss.low, card)

\* What the build order says of add(self, card) = result, the suit being
\* compared first.
C20_Call(self, card, result) ==
    /\ card.suit # self.suit => result = Err("SuitMismatch")
    /\ (card.suit = self.suit /\ card.rank \in BuildOrder(self.stack_state)) =>
          result = Ok([suit |-> self.suit,
                       stack_state |-> BuildNext(self.stack_state, card)])
    /\ (card.suit = self.suit /\ card.rank \notin BuildOrder(self.stack_state)) =>
          result = IF IsFull(self.stack_state)
                   THEN Err("StackFull") ELSE Err("RankMismatch")

\* C20 as stated: as C20_BuildOrder, and a stack with low = Ace and
\* high = King rejects every card with StackFull.
C20_Original ==
    added.some =>
        /\ C20_Call(added.value.self, added.value.card, added.value.result)
        /\ IsFull(added.value.self.stack_state) => added.value.result = Err("StackFull")

\* C20 (amended): add follows the build order for every (stack state, card)
\* pair: a card of another suit gives SuitMismatch whatever the stack holds;
\* for a card of the stack's suit, Empty accepts only rank 7, SevenOnly only
\* 6 or 8, LowOnly(c) only rank(c)-1 or 8, HighOnly(c) only rank(c)+1 or 6,
\* LowAndHigh only low-1 or high+1; a stack with low = Ace and high = King
\* rejects every card of its suit with StackFull; every other card gives
\* RankMismatch; and add leaves the stack it is called on as it was.
C20_BuildOrder ==
    added.some =>
        /\ C20_Call(added.value.self, added.value.card, added.value.result)
        /\ ~added.value.result.ok => card_stack = added.value.self

\* A full stack has just rejected a card of its own suit.
C20_Witness ==
    /\ added.some
    /\ IsFull(added.value.self.stack_state)
    /\ added.value.card.suit = added.value.self.suit
    /\ added.value.result = Err("StackFull")

\* ------------------------------------------------------------------ C11

\* Server::run takes a request off its mailbox in this step.
ServerTakes(type) ==
    /\ server_task.pc = "recv"
    /\ router_queue # <<>>
    /\ Len(router_queue') < Len(router_queue)
    /\ Head(router_queue).msg.type = type

\* What create_room does in a step that takes a CreateRoom request: full, it
\* answers ServerFull and registers nothing; otherwise it spawns one room,
\* registers it under a new identifier and answers that identifier.
C11_CreateRoom ==
    ServerTakes("CreateRoom") =>
        /\ served'.some
        /\ IF Cardinality(rooms) = max_rooms
           THEN /\ ~served'.value.result.ok
                /\ served'.value.result.err = "ServerFull"
                /\ served'.value.directory = rooms
                /\ actors' = actors
           ELSE /\ served'.value.result.ok
                /\ served'.value.result.value \notin rooms
                /\ served'.value.directory = rooms \cup {served'.value.result.value}
                /\ Len(actors') = Len(actors) + 1

\* C11: the directory never holds more than max_rooms rooms; create_room is
\* rejected with ServerFull exactly when the directory holds max_rooms rooms,
\* and otherwise registers one new room and returns its identifier.
C11_DirectoryBounded ==
    /\ [](Cardinality(rooms) <= max_rooms)
    /\ [][C11_CreateRoom]_vars

\* ------------------------------------------------------------------ C12

\* The places of a room-scoped Server method where the room turns out to be
\* gone: the lookup, a send to the room, the wait for its reply.
RoomGone ==
    {"unknown_id", "send_failed", "reply_dropped", "probe_send_failed",
     "probe_reply_dropped"}

\* The Server waits for a reply that can still come: the channel has been
\* answered or dropped, or the room's task has not ended.
ReplyComes ==
    server_task.pc \in {"reply", "probe"} =>
        \/ oneshots[server_task.rx].tx # "held"
        \/ actors[server_task.env.msg.room].pc # "exited"

\* C12: a room-scoped command on an identifier not in the directory returns
\* InvalidRoomId, and so does one that fails at a send or a reply-wait
\* because the room's actor has exited; the Dispatcher neither hangs nor
\* crashes on such a command.
C12_InvalidRoomId ==
    /\ served.some /\ served.value.cause \in RoomGone =>
           /\ ~served.value.result.ok
           /\ served.value.result.err = "InvalidRoomId"
    /\ ReplyComes
    /\ served.some /\ served.value.cause = "panic" =>
           served.value.env.msg.type = "CreateRoom"

\* ------------------------------------------------------------------ C13

\* A room that has left the loop of Room::run handles no command any more
\* and ends.
C13_Terminates ==
    \A r \in DOMAIN actors :
        actors[r].pc # "recv" =>
            /\ actors'[r].pc \in {"stopping", "exited"}
            /\ actors'[r].room = actors[r].room

\* A call made after the actor of its room has terminated has returned
\* InvalidRoomId.
C13_Returned(c) ==
    callers[c].pc = "done" /\ callers[c].gone =>
        /\ ~callers[c].reply.value.ok
        /\ callers[c].reply.value.err = "InvalidRoomId"

\* C13: a room's actor that gets no command within the quiescence window
\* terminates, and every call made against its identifier afterwards returns
\* InvalidRoomId.
C13_IdleRoomInvalid ==
    /\ [](\A c \in Callers : C13_Returned(c))
    /\ [][C13_Terminates]_vars

\* ------------------------------------------------------------------ C14

\* The room has handled the command sent to it with oneshot id: it has
\* answered on that oneshot.
Applied(id) == oneshots[id].sends > 0

\* A handler waits for a reply that can still come: its oneshot has been
\* answered or dropped, or the running Server has its request.
CallComes(c) ==
    callers[c].pc = "wait" =>
        \/ oneshots[callers[c].rx].tx # "held"
        \/ /\ server_task.pc = "recv"
           /\ callers[c].rx \in Responders(router_queue)
        \/ /\ server_task.pc \in {"reply", "probe"}
           /\ \/ callers[c].rx \in Responders(router_queue)
              \/ server_task.env.responder = callers[c].rx

\* The result of a command that went to a room: the room's reply when the
\* room applied it, a failure when the room did not.
C14_Outcome ==
    served.some /\ served.value.cmd # 0 =>
        IF Applied(served.value.cmd)
        THEN served.value.cause \in {"replied", "probed"}
        ELSE /\ served.value.cause = "reply_dropped"
             /\ ~served.value.result.ok

\* C14: a command that races with the idle termination of its room is not
\* dropped silently: the caller gets the room's reply for a command that was
\* applied or a failure for one that was not, never waits forever, and never
\* gets a failure for a command that was applied.
C14_NeverDropped ==
    /\ C14_Outcome
    /\ \A c \in Callers : CallComes(c)
    /\ server_task.pc \in {"reply", "probe"} =>
           \/ oneshots[server_task.rx].tx # "held"
           \/ actors[server_task.env.msg.room].pc # "exited"

\* ------------------------------------------------------------------ C15

\* The room after the messages of queue, handled one after the other from
\* the head.
RECURSIVE AppliedInOrder(_, _)
AppliedInOrder(room, queue) ==
    IF queue = <<>> THEN room
    ELSE AppliedInOrder(Handle(room, Head(queue).msg, DealtDeck(room.game.decks)).room,
                        Tail(queue))

\* The oneshot holds the reply of a room to a ServerRoomMessage.
RoomReply(id) ==
    /\ oneshots[id].value.some
    /\ oneshots[id].value.value.re.msg.type # "CreateRoom"
    /\ "room" \notin DOMAIN oneshots[id].value.value.re.msg

\* Every reply of a room is the answer of the room that all messages sent
\* before it have produced, and a room at its recv is one mailbox away from
\* the room that all messages sent to it produce.
C15_State ==
    /\ \A id \in DOMAIN oneshots :
           RoomReply(id) =>
               oneshots[id].value.value.value = oneshots[id].value.value.re.expect
    /\ \A r \in DOMAIN actors :
           actors[r].pc = "recv" =>
               AppliedInOrder(actors[r].room, actors[r].queue) = actors[r].shadow

\* A step changes a room by handling the one message at the head of its
\* mailbox, and takes no other message out of a running room's mailbox.
C15_Step ==
    \A r \in DOMAIN actors :
        \/ /\ actors'[r].room = actors[r].room
           /\ \/ actors'[r].pc # "recv"
              \/ Len(actors'[r].queue) >= Len(actors[r].queue)
        \/ /\ actors[r].queue # <<>>
           /\ actors'[r].queue = Tail(actors[r].queue)
           /\ actors'[r].room =
                  Handle(actors[r].room, Head(actors[r].queue).msg,
                         DealtDeck(actors[r].room.game.decks)).room

\* C15: the commands sent to one room are applied one at a time in the order
\* they reached its mailbox, and each reply reflects the room that all
\* commands before it have produced.
C15_InArrivalOrder == [](C15_State) /\ [][C15_Step]_vars

\* A room has answered LastMove with the card of a Play it applied before.
C15_Witness ==
    \E id \in DOMAIN oneshots :
        /\ RoomReply(id)
        /\ oneshots[id].value.value.re.msg.type = "LastMove"
        /\ oneshots[id].value.value.value.some

\* ------------------------------------------------------------------ C16

\* The Play calls of handlers c and d name one room and distinct players,
\* one was issued while the other was pending, and the room has answered
\* both.
BothPlayed(c, d) ==
    /\ c # d
    /\ callers[c].msg.some /\ callers[c].msg.value.type = "Play"
    /\ callers[d].msg.some /\ callers[d].msg.value.type = "Play"
    /\ callers[c].msg.value.room = callers[d].msg.value.room
    /\ callers[c].msg.value.player # callers[d].msg.value.player
    /\ callers[c].rx \in callers[d].during \/ callers[d].rx \in callers[c].during
    /\ callers[c].answer.some /\ callers[d].answer.some

\* The room's answer to a Play is a rejection the claim names.
Refused(answer) == ~answer.ok /\ answer.err \in {"TooEarly", "InvalidMove"}

\* The original statement: of concurrent Play calls from distinct players
\* only one, that of the current player, succeeds; the others are answered
\* TooEarly or InvalidMove.
C16_Original ==
    \A c, d \in Callers :
        BothPlayed(c, d) =>
            /\ ~(callers[c].answer.value.ok /\ callers[d].answer.value.ok)
            /\ callers[c].answer.value.ok \/ Refused(callers[c].answer.value)
            /\ callers[d].answer.value.ok \/ Refused(callers[d].answer.value)

\* The action of player is the move of the current player of a full room,
\* and one of the valid actions.
InTurn(self, action, player) ==
    /\ self.joined_players = self.max_player_count
    /\ self.game.state.tag = "InPlay"
    /\ self.game.state.player = player
    /\ TransitionOf(action, player) \in self.game.state.valid_actions

\* The step in which room r handles the Play at the head of its mailbox:
\* the answer is Ok exactly for a move in turn, TooEarly or InvalidMove
\* otherwise.
C16_Applied(r) ==
    (/\ actors[r].pc = "recv"
     /\ actors[r].queue # <<>>
     /\ Head(actors[r].queue).msg.type = "Play"
     /\ actors'[r].queue = Tail(actors[r].queue)
     /\ actors'[r].pc = "recv") =>
        /\ oneshots'[Head(actors[r].queue).responder].value.some
        /\ oneshots'[Head(actors[r].queue).responder].value.value.value.ok
              <=> InTurn(actors[r].room, Head(actors[r].queue).msg.action,
                         Head(actors[r].queue).msg.player)
        /\ \/ oneshots'[Head(actors[r].queue).responder].value.value.value.ok
           \/ Refused(oneshots'[Head(actors[r].queue).responder].value.value.value)

\* C16 (amended): of concurrent Play calls from distinct players against one
\* room, the room accepts a call exactly when, at the moment it is applied,
\* its player is the current player and the action is valid, so a later
\* call can be accepted after an earlier one has passed the turn; every
\* other call is answered TooEarly or InvalidMove, and the room is the one
\* that applying the calls one by one in arrival order gives.
C16_AcceptedInTurn ==
    /\ [](\A r \in DOMAIN actors :
             actors[r].pc = "recv" /\ actors[r].queue = <<>> =>
                 actors[r].room = actors[r].shadow)
    /\ [][\A r \in DOMAIN actors : C16_Applied(r)]_vars

\* Two concurrent Play calls from distinct players that the room has both
\* accepted.
C16_Witness ==
    \E c, d \in Callers :
        /\ BothPlayed(c, d)
        /\ callers[c].answer.value.ok
        /\ callers[d].answer.value.ok

\* ------------------------------------------------------------------ C17

\* The Server is inside a method, at the await of a reply that the room has
\* not given yet.
AwaitsRoom ==
    /\ server_task.pc \in {"reply", "probe"}
    /\ oneshots[server_task.rx].tx = "held"

\* C17: a caller waits only for its own reply: while the request of one
\* caller is pending at a room, the request of another caller is not kept
\* waiting for it, whichever room it names.
C17_WaitsForOwnReply ==
    AwaitsRoom =>
        \A i \in DOMAIN router_queue :
            router_queue[i].responder = server_task.env.responder

\* ------------------------------------------------------------------ C18

\* The oneshots of the requests that are on their way or awaited.
InFlight ==
    [i \in 1..Len(router_queue) |-> router_queue[i].responder]

\* What C18 says of channel id: at most one reply was sent on it, and the
\* reply in it answers the request that carried it.
C18_Channel(id) ==
    /\ oneshots[id].sends <= 1
    /\ oneshots[id].value.some => oneshots[id].value.value.re.responder = id

\* What C18 says of handler c while it waits: no other handler and no other
\* request shares its channel, and a reply in it answers its own request.
C18_Caller(c) ==
    callers[c].pc = "wait" =>
        /\ \A d \in Callers \ {c} : callers[d].pc = "wait" => callers[d].rx # callers[c].rx
        /\ Cardinality({i \in DOMAIN InFlight : InFlight[i] = callers[c].rx}) <= 1
        /\ \A r \in DOMAIN actors :
              callers[c].rx \notin Responders(actors[r].queue)
        /\ oneshots[callers[c].rx].value.some =>
              oneshots[callers[c].rx].value.value.re.msg = callers[c].msg.value

\* C18: every request carries a reply channel of its own that is used once:
\* a reply is delivered at most once and only to the caller of the request it
\* answers, between the router and the Server as between the Server and a
\* room.
C18_OwnReplyChannel ==
    /\ \A id \in DOMAIN oneshots : C18_Channel(id)
    /\ \A c \in Callers : C18_Caller(c)
    /\ server_task.pc \in {"reply", "probe"} /\ oneshots[server_task.rx].value.some =>
           oneshots[server_task.rx].value.value.re.call = server_task.env.responder

\* A handler holds the reply to its request while the other handler, which
\* called at the same time, still waits for its own.
C18_Witness ==
    \E c, d \in Callers :
        /\ callers[c].pc = "done" /\ callers[c].rx # 0
        /\ oneshots[callers[c].rx].sends = 1
        /\ callers[d].pc = "wait"
        /\ callers[d].rx \in callers[c].during \/ callers[c].rx \in callers[d].during
        /\ oneshots[callers[d].rx].tx = "held"

\* ------------------------------------------------------------------ C21

\* What C21 says of GetHand(player) on the room as it is.
C21_Hand(player) ==
    IF player \in 0..(max_player_count - 1)
    THEN /\ room_hand_of_player(Room, player).ok
         /\ room_hand_of_player(Room, player).value = game.players[player].hand
         /\ game.state.tag = "PrePlay" => room_hand_of_player(Room, player).value = <<>>
    ELSE /\ ~room_hand_of_player(Room, player).ok
         /\ room_hand_of_player(Room, player).err = "InvalidPlayerId"

\* A GetHand is answered Ok or InvalidPlayerId and changes nothing.
C21_Step ==
    (response'.op = "hand" /\ response' # response) =>
        /\ response'.result \in {"Ok", "InvalidPlayerId"}
        /\ RoomState' = RoomState

\* C21: GetHand(player) returns InvalidPlayerId exactly when the player
\* index is outside 0..max_players-1 and otherwise that player's current
\* hand, the empty list before the deal, in any game state.
C21_HandOrInvalidPlayerId ==
    /\ [](\A player \in 0..(max_player_count + 1) : C21_Hand(player))
    /\ [][C21_Step]_vars

\* An index out of range was refused in a running game with cards on the
\* table.
C21_Witness ==
    /\ response = Response("hand", "InvalidPlayerId")
    /\ game.state.tag = "InPlay"
    /\ CardsOnTable(game.playing_area) > 0

\* ------------------------------------------------------------------ C22

\* What C22 says of get_game_state on the room as it is: it answers, with the
\* playing area and the hand size of every joined player, and nothing else.
C22_State ==
    /\ game_state(Room).ok
    /\ DOMAIN game_state(Room).value = {"playing_area", "card_counts"}
    /\ game_state(Room).value.playing_area = game.playing_area
    /\ DOMAIN game_state(Room).value.card_counts = 0..(joined_players - 1)
    /\ \A player \in 0..(joined_players - 1) :
          game_state(Room).value.card_counts[player] = Len(game.players[player].hand)

\* A get_game_state is answered and changes nothing.
C22_Step ==
    (response'.op = "game_state" /\ response' # response) =>
        /\ response'.result = "Ok"
        /\ RoomState' = RoomState

\* C22: get_game_state on an existing room never fails, in PrePlay, InPlay
\* or Over, and returns the current playing area with exactly one hand count
\* per joined player, equal to that player's hand size; no card of a hand is
\* part of the answer.
C22_GameStateNeverFails == [](Alive => C22_State) /\ [][C22_Step]_vars

\* get_game_state was answered on a finished game.
C22_Witness ==
    /\ response = Response("game_state", "Ok")
    /\ game.state.tag = "Over"

\* ------------------------------------------------------------------ C23

\* What get_last_move returns from a room whose last_move is lm: the reply
\* of the room to LastMove as Server::last_move hands it on.
LastMoveOf(lm) ==
    Replied(RouterLastMove(1),
            Handle([Room EXCEPT !.last_move = lm], RoomLastMove, <<>>).reply)

\* The step is an accepted move; it is a Play when the playing area changes.
MoveAccepted == response' = Response("play", "Ok") /\ game' # game
CardAccepted == MoveAccepted /\ game'.playing_area # game.playing_area
PassAccepted == MoveAccepted /\ game'.playing_area = game.playing_area

\* After an accepted Play, get_last_move returns the Play of the card that
\* the mover has put on the table.
C23_AfterPlay ==
    CardAccepted =>
        /\ LastMoveOf(last_move').ok
        /\ LastMoveOf(last_move').value.type = "Play"
        /\ update(game, Play(Mover(game), LastMoveOf(last_move').value.card), <<>>).game
              = game'

\* The original statement: also an accepted Pass becomes the last move.
C23_Original ==
    /\ [](CardsOnTable(game.playing_area) = 0 /\ game.state.tag # "InPlay"
             => LastMoveOf(last_move) = Err("NoMove"))
    /\ [][/\ C23_AfterPlay
          /\ PassAccepted => LastMoveOf(last_move') = Ok(ActionPass)
          /\ ~MoveAccepted => last_move' = last_move]_vars

\* C23 (amended): get_last_move returns NoMove until the first Play(card) of
\* a room has been accepted and afterwards the last accepted Play(card); an
\* accepted Pass and a rejected move never change it.
C23_LastAcceptedPlay ==
    /\ [](LastMoveOf(last_move) = Err("NoMove") <=> CardsOnTable(game.playing_area) = 0)
    /\ [][/\ C23_AfterPlay
          /\ ~CardAccepted => last_move' = last_move]_vars

\* The first accepted move of a game was a Pass, and get_last_move still
\* returns NoMove.
C23_Witness ==
    /\ response = Response("play", "Ok")
    /\ game.state.tag = "InPlay"
    /\ game.state.player # 0
    /\ CardsOnTable(game.playing_area) = 0
    /\ LastMoveOf(last_move) = Err("NoMove")

\* ------------------------------------------------------------------ C24

\* The Server is back at recv and the last command it finished was not a
\* Play: a read of room r that the room answered, or a create_room that
\* found the directory full.
ServedAfterPlay(r) ==
    /\ served.some
    /\ server_task.pc = "recv"
    /\ \/ /\ served.value.cause = "replied"
          /\ served.value.env.msg.type \in {"GetHand", "LastMove", "GameState"}
          /\ served.value.env.msg.room = r
       \/ served.value.cause = "server_full"

\* C24: once the move that ends the game of a room has been served, the
\* room leaves the directory and create_room can have its slot, also while
\* the room is read.  Checked at the first sweep that could show it: when
\* the Server has finished a command it took after that move, the finished
\* room is no longer in the directory.
C24_FinishedRoomRemoved ==
    \A r \in DOMAIN actors :
        is_game_over(actors[r].room) /\ ServedAfterPlay(r) => r \notin rooms

\* ------------------------------------------------------------------ C25

\* A play call that has returned: ok when the room has answered Ok to its
\* Play, an error when the room has not applied it.
C25_Call(c) ==
    callers[c].pc = "done" /\ callers[c].msg.value.type = "Play" =>
        IF callers[c].reply.value.ok
        THEN callers[c].answer = Some(Ok([unit |-> TRUE]))
        ELSE ~(callers[c].answer.some /\ callers[c].answer.value.ok)

\* The room r takes the message at the head of its mailbox and answers it
\* on a oneshot whose Receiver is alive.
C25_Answers(r) ==
    /\ actors[r].pc = "recv" /\ actors[r].queue # <<>>
    /\ actors'[r].queue = Tail(actors[r].queue)
    /\ oneshots[Head(actors[r].queue).responder].rx
    /\ oneshots'[Head(actors[r].queue).responder].value.some

\* What the step of room r does to the room: a Play answered Ok is one
\* transition of the game, a Play answered with an error is none, and
\* GetHand, GameState, LastMove and GameOver leave game, roster and last
\* move as they are.
C25_Room(r, msg, reply) ==
    IF msg.type = "Play"
    THEN IF reply.ok
         THEN /\ actors'[r].room.game =
                     update(actors[r].room.game, TransitionOf(msg.action, msg.player),
                            <<>>).game
              /\ actors'[r].room.game # actors[r].room.game
              /\ actors'[r].room.joined_players = actors[r].room.joined_players
         ELSE actors'[r].room = actors[r].room
    ELSE msg.type \in {"Hand", "GameState", "LastMove", "GameOver"} =>
             actors'[r].room = actors[r].room

C25_Step ==
    \A r \in DOMAIN actors :
        C25_Answers(r) =>
            C25_Room(r, Head(actors[r].queue).msg,
                     oneshots'[Head(actors[r].queue).responder].value.value.value)

\* C25: a play call that returns ok has applied exactly one transition to
\* the game of its room and a play call that returns an error has applied
\* none; get_hand, get_game_state, get_last_move and the game-over query
\* change nothing of the room however often they are repeated.
C25_ExactlyOnce ==
    /\ [](\A c \in Callers : C25_Call(c))
    /\ [](\A id \in DOMAIN oneshots : oneshots[id].sends <= 1)
    /\ [][C25_Step]_vars


\* ------------------------------------------------------------------ C26

\* C26: create_room(players, decks) returns a room identifier or ServerFull
\* for every input, players = 0 and decks = 0 included, and no create_room
\* input ends the Server task.
C26_CreateRoomTotal ==
    /\ server_task.pc # "panicked"
    /\ served.some /\ served.value.env.msg.type = "CreateRoom" =>
           \/ served.value.result.ok /\ served.value.result.value \in served.value.directory
           \/ ~served.value.result.ok /\ served.value.result.err = "ServerFull"

\* ------------------------------------------------------------------ C27

\* The places of the hands of g that hold the card.
CopiesDealt(g, card) ==
    UNION {{<<p, i>> : i \in {j \in DOMAIN g.players[p].hand :
                                 g.players[p].hand[j] = card}} :
           p \in DOMAIN g.players}

\* The hands of dealt, dealt from before with cards_per_player = q and
\* leftover = r.
C27_Hands(before, dealt, q, r) ==
    /\ DOMAIN dealt.players = 0..(before.player_count - 1)
    /\ \A p \in DOMAIN dealt.players :
          /\ Len(dealt.players[p].hand) = IF p < r THEN q + 1 ELSE q
          /\ before.players[p].max_card_count = Len(dealt.players[p].hand)
          /\ dealt.players[p].max_card_count = Len(dealt.players[p].hand)
    /\ \A p1, p2 \in DOMAIN dealt.players :
          Len(dealt.players[p1].hand) - Len(dealt.players[p2].hand) \in {-1, 0, 1}
    /\ CardsInHands(dealt) = before.decks * DeckSize
    /\ \A card \in AllCards : Cardinality(CopiesDealt(dealt, card)) = before.decks

\* What C27 says of DealCards applied to the game before with result r.
C27_Deal(before, r) ==
    /\ r.result = "Ok"
    /\ C27_Hands(before, r.game, (before.decks * DeckSize) \div before.player_count,
                 (before.decks * DeckSize) % before.player_count)
    /\ r.game.state.tag = "InPlay"
    /\ r.game.state.player = 0
    /\ r.game.playing_area = before.playing_area

\* The step out of PrePlay is the deal C27 describes.
C27_Step ==
    game.state.tag = "PrePlay" /\ game' # game =>
        C27_Deal(game, Result(response'.result, game'))

\* C27: DealCards hands out all decks x 52 cards: q + 1 to the players
\* 0..r-1 and q to the others (q, r the quotient and remainder of decks x 52
\* by the players), each place of the deck to one player, every hand of the
\* size fixed at creation, so that the assertion of assign_cards does not
\* fire; the game is then InPlay with player 0 to move.
C27_DealsAllCards ==
    /\ [](game.state.tag = "PrePlay" =>
             \A deck \in Shuffles(game.decks) : C27_Deal(game, update(game, DealCards, deck)))
    /\ [][C27_Step]_vars

\* A deal with a remainder has been made: the first players hold one card
\* more than the last ones.
C27_Witness ==
    /\ response = Response("update", "Ok")
    /\ game.state.tag = "InPlay"
    /\ CardsOnTable(game.playing_area) = 0
    /\ Len(game.players[0].hand) = Len(game.players[game.player_count - 1].hand) + 1

\* ------------------------------------------------------------------ C28

\* The handler c has returned the token of a successful join.
HoldsToken(c) ==
    /\ callers[c].pc = "done"
    /\ callers[c].msg.value.type = "JoinRoom"
    /\ callers[c].reply.value.ok

\* The token a handler returns verifies to the room the join named and to
\* the subject the room put in its claim, a seat of the room that is taken;
\* two tokens of one room name different players.
C28_Token(c) ==
    HoldsToken(c) =>
        /\ verify(callers[c].reply.value.value).ok
        /\ verify(callers[c].reply.value.value).value.room_id = callers[c].msg.value.room
        /\ callers[c].answer.some /\ callers[c].answer.value.ok
        /\ to_string(verify(callers[c].reply.value.value).value.player_id)
              = callers[c].answer.value.value.sub
        /\ verify(callers[c].reply.value.value).value.player_id
              \in 0..(actors[callers[c].msg.value.room].room.joined_players - 1)
        /\ actors[callers[c].msg.value.room].room.joined_players
              <= actors[callers[c].msg.value.room].room.max_player_count
        /\ \A d \in Callers \ {c} :
              HoldsToken(d) /\ callers[d].msg.value.room = callers[c].msg.value.room =>
                  verify(callers[d].reply.value.value).value.player_id
                      # verify(callers[c].reply.value.value).value.player_id

\* A request that came with a token names the player and the room the
\* token verifies to.
C28_Request(c) ==
    callers[c].auth.some =>
        /\ callers[c].msg.value.player = verify(callers[c].auth.value).value.player_id
        /\ callers[c].msg.value.room = verify(callers[c].auth.value).value.room_id

\* The room r answers the AddPlayer at the head of its mailbox with reply:
\* the token the Server makes of an Ok verifies to the number of players
\* joined before and to r, and one more player has joined.
C28_Join(r, reply) ==
    reply.ok =>
        /\ verify(Replied(RouterJoinRoom(r), reply).value)
              = Ok([player_id |-> actors[r].room.joined_players, room_id |-> r])
        /\ actors'[r].room.joined_players = actors[r].room.joined_players + 1

\* The Server forwards the Play or GetHand env: the room env names gets one
\* message for the player env names, every other room none.
C28_Forwarded(env) ==
    \A r \in DOMAIN actors :
        IF r = env.msg.room /\ r \in rooms /\ actors[r].pc # "exited"
        THEN /\ Len(actors'[r].queue) = Len(actors[r].queue) + 1
             /\ actors'[r].queue[Len(actors'[r].queue)].msg.player = env.msg.player
             /\ actors'[r].queue[Len(actors'[r].queue)].msg.type
                   = IF env.msg.type = "Play" THEN "Play" ELSE "Hand"
             /\ actors'[r].queue[Len(actors'[r].queue)].call = env.call
        ELSE actors'[r] = actors[r]

C28_Step ==
    /\ \A r \in DOMAIN actors :
          C25_Answers(r) /\ Head(actors[r].queue).msg.type = "AddPlayer" =>
              C28_Join(r, oneshots'[Head(actors[r].queue).responder].value.value.value)
    /\ ServerTakes("Play") \/ ServerTakes("GetHand") => C28_Forwarded(Head(router_queue))

\* C28: a successful join issues a token for the joined room and for the
\* number of players that joined the room before it, so that the joins of a
\* room get distinct players, concurrent or not; verify yields this pair,
\* and a play or get_hand with the token goes to that room for that player.
C28_TokenNamesSeat ==
    /\ [](\A c \in Callers : C28_Token(c) /\ C28_Request(c))
    /\ [][C28_Step]_vars

\* Two joins of one room that were pending together have both succeeded:
\* the handlers hold the tokens of the players 0 and 1.
C28_Witness ==
    \E c, d \in Callers :
        /\ c # d /\ HoldsToken(c) /\ HoldsToken(d)
        /\ callers[c].rx \in callers[d].during
        /\ callers[c].msg.value.room = callers[d].msg.value.room
        /\ verify(callers[c].reply.value.value).value.player_id = 0
        /\ verify(callers[d].reply.value.value).value.player_id = 1

\* ------------------------------------------------------------------ C29

\* The read c as it stands: it waits without the lock, it is ready to wake
\* when the playing area has been published since it subscribed, and what it
\* has returned was published.
C29_Read(c) ==
    /\ reads[c].pc \in {"select", "woken", "done"} => c \notin lock_readers
    /\ reads[c].pc = "select" =>
          /\ reads[c].seen = reads[c].since
          /\ play_area_sender.version > reads[c].since =>
                play_area_sender.version # reads[c].seen
    /\ play_area_sender.value = game.playing_area

\* The read c leaves its wait when the playing area has been published
\* after it subscribed or when the time has elapsed, and it returns the
\* playing area as it is when it returns.
C29_Wakes(c) ==
    /\ reads[c].pc = "select" /\ reads'[c].pc # "select" =>
          \/ reads'[c].cause = "changed" /\ play_area_sender.version > reads[c].since
          \/ reads'[c].cause = "elapsed"
    /\ reads[c].pc # "done" /\ reads'[c].pc = "done" =>
          /\ reads[c].pc = "woken"
          /\ reads'[c].returned = Some(game'.playing_area)

\* C29: a waiting playing-area read blocks until the playing area is next
\* published or the 10 seconds have elapsed, and then returns the playing
\* area current at that moment; a change published after the read has
\* subscribed is not missed, and the lock is not held during the wait.
C29_WakeOnChange ==
    /\ [](\A c \in Readers : C29_Read(c))
    /\ [][\A c \in Readers : C29_Wakes(c)]_vars
    /\ \A c \in Readers : (reads[c].pc = "locked") ~> (reads[c].pc = "done")

\* A read has returned a playing area with a card on it that was played
\* while it waited.
C29_Witness ==
    \E c \in Readers :
        /\ reads[c].pc = "done"
        /\ reads[c].cause = "changed"
        /\ reads[c].returned = Some(game.playing_area)
        /\ CardsOnTable(game.playing_area) > 0
        /\ reads[c].since = 0

\* ------------------------------------------------------------------ C30

\* Server::run finishes a command in this step and goes on to the next
\* recv.
Finishes ==
    /\ server_task'.pc = "recv"
    /\ \/ server_task.pc \in {"reply", "probe"}
       \/ ServerTakes("CreateRoom")
       \/ \E type \in {"JoinRoom", "Play", "GetHand", "LastMove", "GameState"} :
             ServerTakes(type)

\* The directory after a finished command holds no room whose task had
\* ended, and holds every room that was in it, or was created by the
\* command, and whose task has not ended; no other step of a running Server
\* changes the directory.
C30_Step ==
    IF Finishes
    THEN /\ \A r \in rooms' : actors'[r].pc # "exited"
         /\ \A r \in rooms \cup (DOMAIN actors' \ DOMAIN actors) :
               actors'[r].pc # "exited" => r \in rooms'
         /\ rooms' \subseteq rooms \cup (DOMAIN actors' \ DOMAIN actors)
    ELSE server_task'.pc \notin {"exited", "panicked"} => rooms' = rooms

\* C30: when the Server has finished a command, its directory holds no
\* entry of a room whose task had ended when the sweep ran, and the sweep
\* removes no entry of a room whose task still runs.
C30_SweepExact == [][C30_Step]_vars

\* A sweep has removed the entry of a room whose task had ended.
C30_Witness ==
    /\ served.some
    /\ server_task.pc = "recv"
    /\ served.value.directory # rooms
    /\ \E r \in served.value.directory : r \notin rooms /\ actors[r].pc = "exited"

\* ---- C31
\* The states a stack of the suit can take: CardStack::new and every chain
\* of accepted adds (50 per suit).
StackStates(suit) ==
    {Empty, SevenOnly}
    \cup {LowOnly(Card(suit, r)) : r \in Ace..Six}
    \cup {HighOnly(Card(suit, r)) : r \in Eight..King}
    \cup {LowAndHigh(Card(suit, l), Card(suit, h)) : l \in Ace..Six, h \in Eight..King}

\* add accepts a card of the stack's suit exactly when the stack offers it.
C31_Agree(stack) ==
    \A rank \in Ranks :
        add(stack, Card(stack.suit, rank)).ok
            <=> Card(stack.suit, rank) \in NextPlayable(stack)

\* Every stored Play is applied without a failed unwrap.
C31_Applies(g) ==
    g.state.tag = "InPlay" =>
        \A a \in g.state.valid_actions :
            a.type = "Play" =>
                /\ try_play(g.playing_area, a.card).ok
                /\ remove_card(g.players[g.state.player], a.card).ok
                /\ update(g, a, <<>>).result = "Ok"

\* C31: for every stack state and every card of the stack's suit, add
\* succeeds iff the card is in the stack's next-playable set, and every Play
\* of the stored valid_actions finds a stack that accepts its card and a copy
\* of the card in the mover's hand, for one deck and for two.
C31_ValidIsApplicable ==
    /\ \A suit \in Suits : \A ss \in StackStates(suit) :
          C31_Agree(NewWithStackState(suit, ss))
    /\ \A i \in 1..Len(game.playing_area) :
          /\ game.playing_area[i].stack_state \in StackStates(game.playing_area[i].suit)
          /\ C31_Agree(game.playing_area[i])
    /\ C31_Applies(game)

\* A two-deck game in play where the first stack of a suit rejects a card of
\* the stored valid Plays and its second stack accepts it.
C31_Witness ==
    /\ game.state.tag = "InPlay"
    /\ game.decks = 2
    /\ \E a \in game.state.valid_actions :
         /\ a.type = "Play"
         /\ \E i, j \in 1..Len(game.playing_area) :
              /\ i < j
              /\ game.playing_area[i].suit = a.card.suit
              /\ ~add(game.playing_area[i], a.card).ok
              /\ add(game.playing_area[j], a.card).ok

\* ---- C32
\* The actions open to player p: a Play of every card p holds that the rules
\* let be played now, or Pass alone when there is none.
C32_Expected(g, p) ==
    IF HoldsPlayable(g, p)
    THEN {Play(p, card) : card \in {c \in AllCards : Holds(g, p, c) /\ Playable(g, c)}}
    ELSE {Pass(p)}

\* C32: in every InPlay state the stored valid_actions is the set computed
\* from the current playing area and the current player's current hand: each
\* action names the current player, each Play names a card that player holds
\* and some stack accepts, and Pass is in it iff no Play is.
C32_ValidActionsCurrent ==
    game.state.tag = "InPlay" =>
        /\ game.state.valid_actions = C32_Expected(game, game.state.player)
        /\ \A a \in game.state.valid_actions :
              /\ a.type \in {"Play", "Pass"}
              /\ a.player = game.state.player
              /\ a.type = "Play" =>
                    /\ Holds(game, a.player, a.card)
                    /\ SomeStackTakes(game, a.card)
        /\ Pass(game.state.player) \in game.state.valid_actions
              <=> ~\E a \in game.state.valid_actions : a.type = "Play"

\* After some accepted moves, the player to move holds a card that can be
\* played and one that no stack accepts.
C32_Witness ==
    /\ game.state.tag = "InPlay"
    /\ game.state.player # 0
    /\ ~is_empty(game.playing_area)
    /\ \E a \in game.state.valid_actions : a.type = "Play"
    /\ \E c \in AllCards :
         Holds(game, game.state.player, c) /\ ~SomeStackTakes(game, c)

\* ---- C33
C33_Step ==
    (AcceptedMove /\ game'.state.tag # "Over") =>
        /\ game'.state.tag = "InPlay"
        /\ game'.state.player = (game.state.player + 1) % game.player_count
        /\ hand_len(game'.players[game'.state.player]) >= 1
        /\ \A a \in game'.state.valid_actions : a.player = game'.state.player

\* C33: after an accepted Play or Pass by player p that does not end the
\* game, the current player is (p + 1) mod player_count, and the recomputed
\* valid_actions are those of that player, who holds at least one card.
C33_TurnsRotate == [][C33_Step]_vars

\* An accepted move has brought the turn back round to player 0.
C33_Witness ==
    /\ game.state.tag = "InPlay"
    /\ game.state.player = 0
    /\ ~is_empty(game.playing_area)
    /\ response = Response("update", "Ok")

\* ---- C34
\* The configurations C34 and C35 are about.
EveryoneDealt(g) ==
    g.decks >= 1 /\ g.player_count >= 1 /\ g.player_count <= g.decks * DeckSize

\* The least element of a set of numbers, default when it is empty.
LeastOr(set, default) ==
    IF set = {} THEN default ELSE CHOOSE k \in set : \A j \in set : k <= j

\* The number of turns until a player holding a valid Play is to move, as
\* hands and playing area stand; player_count when no player holds one.
TurnsToPlay(g) ==
    LeastOr({k \in 0..(g.player_count - 1) :
                HoldsPlayable(g, (g.state.player + k) % g.player_count)},
            g.player_count)

C34_State ==
    /\ CardsOnTable(game.playing_area) <= game.decks * DeckSize
    /\ (game.state.tag = "InPlay" /\ EveryoneDealt(game)) =>
          /\ TurnsToPlay(game) < game.player_count
          /\ TurnsToPlay(game) = 0
                <=> \E a \in game.state.valid_actions : a.type = "Play"
          /\ TurnsToPlay(game) = 0 => Rejects(game, Pass(game.state.player))
          /\ game.state.valid_actions # {}
          /\ CardsOnTable(game.playing_area) < game.decks * DeckSize

\* An accepted Pass brings the next Play one turn nearer; an accepted Play
\* puts one card on the table.
C34_Step ==
    (AcceptedMove /\ EveryoneDealt(game)) =>
        IF CardsOnTable(game'.playing_area) = CardsOnTable(game.playing_area)
        THEN /\ game'.state.tag = "InPlay"
             /\ TurnsToPlay(game) >= 1
             /\ TurnsToPlay(game') = TurnsToPlay(game) - 1
        ELSE /\ CardsOnTable(game'.playing_area) = CardsOnTable(game.playing_area) + 1
             /\ CardsInHands(game') = CardsInHands(game) - 1

\* C34: with decks >= 1 and 1 <= players <= decks*52, in every InPlay state
\* some player holds a card that is a valid Play; every accepted Pass brings
\* that player's turn one step nearer and the player then cannot pass, so
\* fewer than player_count Passes are accepted in a row; every accepted Play
\* puts one more of the decks*52 cards on the table, an InPlay state always
\* has a valid action and has fewer than decks*52 cards on the table, so a
\* game played with valid actions is Over after at most decks*52 Plays.
C34_CannotStall == [](C34_State) /\ [][C34_Step]_vars

\* A game under way where the player to move can only pass and the nearest
\* player holding a valid Play is at least two turns away.
C34_Witness ==
    /\ game.state.tag = "InPlay"
    /\ EveryoneDealt(game)
    /\ ~is_empty(game.playing_area)
    /\ TurnsToPlay(game) >= 2
    /\ response = Response("update", "Ok")

\* ---- C35
\* C35: with decks >= 1 and 1 <= players <= decks*52, every player holds at
\* least one card while the game is InPlay, and once it is Over the winner's
\* hand is empty and every other player's hand is not.
C35_OnlyWinnerEmpty ==
    EveryoneDealt(game) =>
        /\ game.state.tag = "InPlay" =>
              \A p \in DOMAIN game.players : hand_len(game.players[p]) >= 1
        /\ game.state.tag = "Over" =>
              /\ winner(game) = Some(game.state.winner)
              /\ game.state.winner \in DOMAIN game.players
              /\ \A p \in DOMAIN game.players :
                    hand_len(game.players[p]) = 0 <=> p = game.state.winner

\* A game of several Plays won by a player other than player 0.
C35_Witness ==
    /\ EveryoneDealt(game)
    /\ game.state.tag = "Over"
    /\ game.state.winner # 0
    /\ CardsOnTable(game.playing_area) > 2

\* ---- C36
\* Copies of the card in a hand.
Copies(hand, card) == Cardinality({i \in 1..Len(hand) : hand[i] = card})

\* after is before with one card added to stack i and nothing else changed.
C36_Extended(before, after, i, card) ==
    /\ Len(after) = Len(before)
    /\ after[i] = add(before[i], card).value
    /\ StackLen(after[i].stack_state) = StackLen(before[i].stack_state) + 1
    /\ \A j \in 1..Len(before) : j # i => after[j] = before[j]

\* The effect of the accepted Play a on g, with result r.
C36_Play(g, a, r) ==
    /\ r.result = "Ok"
    /\ \E i \in 1..Len(g.playing_area) :
         /\ add(g.playing_area[i], a.card).ok
         /\ \A j \in 1..(i - 1) : ~add(g.playing_area[j], a.card).ok
         /\ C36_Extended(g.playing_area, r.game.playing_area, i, a.card)
    /\ DOMAIN r.game.players = DOMAIN g.players
    /\ \A q \in DOMAIN g.players : q # a.player => r.game.players[q] = g.players[q]
    /\ hand_len(r.game.players[a.player]) = hand_len(g.players[a.player]) - 1
    /\ \A c \in AllCards :
         Copies(r.game.players[a.player].hand, c) =
            Copies(g.players[a.player].hand, c) - (IF c = a.card THEN 1 ELSE 0)

\* The effect of the accepted Pass a on g, with result r.
C36_Pass(g, a, r) ==
    /\ r.result = "Ok"
    /\ r.game.playing_area = g.playing_area
    /\ r.game.players = g.players

C36_State ==
    game.state.tag = "InPlay" =>
        \A a \in game.state.valid_actions :
            IF a.type = "Play" THEN C36_Play(game, a, update(game, a, <<>>))
            ELSE C36_Pass(game, a, update(game, a, <<>>))

C36_Step ==
    AcceptedMove =>
        \E a \in game.state.valid_actions : game' = update(game, a, <<>>).game

\* C36: an accepted Play{player, card} removes exactly one copy of the card
\* from that player's hand and extends exactly one stack, the first in
\* playing-area order whose add accepts the card, every other stack and
\* every other hand staying as it was; an accepted Pass leaves the playing
\* area and all hands unchanged; and every accepted move is one of these.
C36_PlayFrame == [](C36_State) /\ [][C36_Step]_vars

\* In a two-deck game a Play has been accepted that began the second stack
\* of a suit, the first one having rejected the card.
C36_Witness ==
    /\ game.decks = 2
    /\ response = Response("update", "Ok")
    /\ \E i, j \in 1..Len(game.playing_area) :
         /\ i < j
         /\ game.playing_area[i].suit = game.playing_area[j].suit
         /\ game.playing_area[i].stack_state # Empty
         /\ game.playing_area[j].stack_state # Empty

\* ---- C37
\* What C37 speaks of: roster, game (with the hands) and last move of room r.
RoomData(tasks, r) ==
    [joined_players |-> tasks[r].room.joined_players,
     game |-> tasks[r].room.game,
     last_move |-> tasks[r].room.last_move]

\* The Server task is inside a method for a request that names room r.
ServesRoom(task, r) ==
    /\ task.pc \in {"reply", "probe"}
    /\ task.env.msg.type # "CreateRoom"
    /\ task.env.msg.room = r

C37_Step ==
    \A r \in DOMAIN actors :
        /\ r \in DOMAIN actors'
        /\ RoomData(actors', r) # RoomData(actors, r) =>
              /\ ServesRoom(server_task, r)
              /\ actors[r].pc = "recv"
              /\ actors[r].queue # <<>>
              /\ \A q \in DOMAIN actors \ {r} : actors'[q] = actors[q]
        /\ (actors'[r].pc # actors[r].pc /\ actors'[r].pc \in {"stopping", "exited"}) =>
              \A q \in DOMAIN actors \ {r} : actors'[q] = actors[q]
        /\ (ServesRoom(server_task, r) \/ ServesRoom(server_task', r)) =>
              \A q \in DOMAIN actors \ {r} : RoomData(actors', q) = RoomData(actors, q)

\* C37: a room's roster, game, hands and last move change only when that
\* room handles a message of a request addressed to it; a command for one
\* room, accepted or rejected, and the end of one room's actor leave every
\* other room as it was.
C37_RoomsIsolated == [][C37_Step]_vars

\* Both rooms have accepted a command and room 2's actor has ended while
\* room 1's still runs.
C37_Witness ==
    /\ Len(actors) = 2
    /\ actors[1].room.joined_players = 2
    /\ actors[2].room.last_move # None
    /\ actors[2].pc = "exited"
    /\ actors[1].pc = "recv"

\* ---- C38
\* The reply slots whose Receiver went away before a reply was sent.
Abandoned ==
    {id \in DOMAIN oneshots : ~oneshots[id].rx /\ oneshots[id].tx = "held"}

\* C38: when a caller has dropped its reply slot before the reply was sent,
\* the Server task is still in its loop, taking later commands, and every
\* room whose actor runs is still in its directory.
C38_SurvivesAbandoned ==
    Abandoned # {} =>
        /\ server_task.pc # "exited"
        /\ \A r \in DOMAIN actors : actors[r].pc = "recv" => r \in rooms

\* ---- C39
\* The rooms of the directory whose actor has not ended.
Running == {r \in rooms : actors[r].pc # "exited"}

\* The step answers a create_room with ServerFull.
AnswersServerFull ==
    /\ ServerTakes("CreateRoom")
    /\ served'.some
    /\ served'.value.result = Err("ServerFull")

\* C39 as stated: create_room returns ServerFull only when max_rooms room
\* actors are still running; a directory entry whose actor has already
\* exited does not count against the capacity.
C39_Original == [][AnswersServerFull => Cardinality(Running) = max_rooms]_vars

C39_Step ==
    /\ ServerTakes("CreateRoom") =>
          (AnswersServerFull <=> Cardinality(rooms) = max_rooms)
    /\ Finishes => \A r \in rooms' : actors'[r].pc # "exited"

\* C39: create_room returns ServerFull exactly when the directory holds
\* max_rooms entries, running or not; an entry whose actor has exited is
\* removed by the sweep that ends the next finished command, so it counts
\* against a create_room only if no command was finished since the exit.
C39_FullByDirectory == [][C39_Step]_vars

\* create_room was answered ServerFull with the only entry of the directory
\* that of a room whose actor had exited, and the sweep after it has removed
\* the entry.
C39_Witness ==
    /\ served.some
    /\ served.value.cause = "server_full"
    /\ \E r \in served.value.directory : actors[r].pc = "exited"
    /\ Running = {}
    /\ rooms = {}
    /\ server_task.pc = "recv"

\* ---- C40
\* remove_card on the player self with the card: a panic when the card is
\* not held, else the hand without one copy of it.
C40_Call(self, card, removed) ==
    IF Copies(self.hand, card) = 0
    THEN removed = Err("Panic")
    ELSE /\ removed.ok
         /\ Len(removed.value.hand) = Len(self.hand) - 1
         /\ removed.value.max_card_count = self.max_card_count
         /\ \A c \in AllCards :
               Copies(removed.value.hand, c) =
                  Copies(self.hand, c) - (IF c = card THEN 1 ELSE 0)

C40_State ==
    \A p \in DOMAIN game.players : \A card \in AllCards :
        C40_Call(game.players[p], card, remove_card(game.players[p], card))

C40_Step ==
    response'.op = "remove_card" =>
        IF response'.result = "Panic"
        THEN game' = game
        ELSE /\ response'.result = "Ok"
             /\ CardsInHands(game') = CardsInHands(game) - 1
             /\ \E p \in DOMAIN game.players :
                   /\ hand_len(game'.players[p]) = hand_len(game.players[p]) - 1
                   /\ \A q \in DOMAIN game.players \ {p} :
                         game'.players[q] = game.players[q]

\* C40: Player::remove_card panics when the player does not hold the card
\* and leaves the player as it was; when the player holds the card, exactly
\* one copy is removed and the hand is shorter by one.
C40_RemoveCard == [](C40_State) /\ [][C40_Step]_vars

\* remove_card has panicked on a player who had given away a card before
\* and still holds one.
C40_Witness ==
    /\ response = Response("remove_card", "Panic")
    /\ \E p \in PlayerProbes :
         /\ hand_len(game.players[p]) >= 1
         /\ hand_len(game.players[p]) < game.players[p].max_card_count

====
